---------------------------- MODULE DosCommands ----------------------------
(***************************************************************************)
(* The DOS commands of the SD2IEC-style browse mode: what ProcessCommand   *)
(* of iec_commands.cpp does to the file system and to the error channel    *)
(* once a command has arrived on channel 15.                               *)
(*                                                                         *)
(* A command is a record.  Its text is parsed by the code into a verb and  *)
(* up to three names; here the verb is .op and the names are .name (the    *)
(* first), .name2 and .name3.  Names are exact: wildcard patterns and      *)
(* directories are left out.                                               *)
(***************************************************************************)
EXTENDS Naturals, Sequences

CONSTANTS
  Names,      \* names files can have in the current folder
  Images,     \* the names whose extension is a disk image's
  NoName,     \* the empty name
  Bytes,      \* the values of a byte
  NoFile      \* "there is no such file"

ASSUME NamesAssumption ==
  /\ Images \subseteq Names
  /\ NoName \notin Names
  /\ NoFile \notin Seq(Bytes)

Contents == Seq(Bytes)
FileSystems == [Names -> Contents \union {NoFile}]

\* The verbs a request can carry.  "file", "dir", "direct" and "rel" are what
\* the name of an OPEN asks of a data channel; the rest are channel 15's.
Ops == {"file", "dir", "direct", "rel", "bootblock",
        "scratch", "rename", "copy", "cd", "cdup", "new", "none",
        "syntax", "empty", "version", "reset"}
Modes == {"", "R", "W", "A"}
RequestRecords == [op    : Ops,
                   name  : Names \union {NoName},
                   name2 : Names \union {NoName},
                   name3 : Names \union {NoName},
                   mode  : Modes]

\* The codes of the error channel this model tells apart.
Errors == {0, 30, 31, 34, 62, 63, 73}

Exists(f, n) == n \in Names /\ f[n] # NoFile

\* The outcome of a command: the file system it leaves, the error it reports
\* and the image it selects for mounting (NoName: none).
Result(f, e, img) == [fs |-> f, error |-> e, selected |-> img]
Outcomes == [fs       : FileSystems,
             error    : Errors,
             selected : Names \union {NoName}]

-----------------------------------------------------------------------------
\* SCRATCH removes every file named and reports no error, found or not.
Scratch(r, f) ==
  Result([n \in Names |-> IF n \in {r.name, r.name2, r.name3}
                          THEN NoFile ELSE f[n]], 0, NoName)

\* ParseFilenames: a command that wants two names reports which is missing.
MissingNames(r) == r.name2 = NoName
MissingError(r) == IF r.name = NoName THEN 31 ELSE 34

\* (RenameOver does not ask whether the new name is taken.)
RenameOver(r, f) ==
  IF MissingNames(r) THEN Result(f, MissingError(r), NoName)
  ELSE IF ~Exists(f, r.name2) THEN Result(f, 62, NoName)
  ELSE Result([f EXCEPT ![r.name] = f[r.name2], ![r.name2] = NoFile], 0, NoName)

\* RENAME:name=name2.  Whether name2 is open on a channel is not looked at.
\* The empty new name is not "no such file" to f_stat, so it is refused as
\* one that exists.
Rename(r, f) ==
  IF MissingNames(r) THEN Result(f, MissingError(r), NoName)
  ELSE IF r.name = NoName \/ Exists(f, r.name) THEN Result(f, 63, NoName)
  ELSE IF ~Exists(f, r.name2) THEN Result(f, 62, NoName)
  ELSE Result([f EXCEPT ![r.name] = f[r.name2], ![r.name2] = NoFile], 0, NoName)

\* CopyFile(new, old, concatenate), for a source that exists.
CopyFile(f, new, old, concatenate) ==
  [f EXCEPT ![new] = IF concatenate /\ f[new] # NoFile
                     THEN f[new] \o f[old] ELSE f[old]]

\* COPY:name=name2,name3.  A missing source is reported and the next one is
\* still appended: what was copied before the error stays.
Copy(r, f) ==
  LET first  == IF Exists(f, r.name2)
                THEN CopyFile(f, r.name, r.name2, FALSE) ELSE f
      second == IF Exists(first, r.name3)
                THEN CopyFile(first, r.name, r.name3, TRUE) ELSE first
      missing == \/ ~Exists(f, r.name2)
                 \/ r.name3 # NoName /\ ~Exists(first, r.name3)
  IN  IF r.name = NoName THEN Result(f, 34, NoName)
      ELSE IF Exists(f, r.name) THEN Result(f, 63, NoName)
      ELSE IF r.name2 = NoName THEN Result(f, 0, NoName)
      ELSE Result(second, IF missing THEN 62 ELSE 0, NoName)

\* CD to an image selects it; there is no folder to change to, so any other
\* file fails in f_chdir.
CD(r, f) ==
  IF Exists(f, r.name) /\ r.name \in Images
  THEN Result(f, 0, r.name)
  ELSE Result(f, 62, NoName)

\* NEW:name,id writes an empty image and mounts it.  blank is the content of
\* a freshly formatted image and the name is an image's (CreateNewDisk adds the
\* extension when it is missing).
New(r, f, blank) ==
  IF MissingNames(r) THEN Result(f, MissingError(r), NoName)
  ELSE IF Exists(f, r.name) THEN Result(f, 63, NoName)
  ELSE Result([f EXCEPT ![r.name] = blank], 0, r.name)

\* The dispatch of ProcessCommand.
ProcessCommand(r, f, blank) ==
  IF r.op = "scratch" THEN Scratch(r, f)
  ELSE IF r.op = "rename" THEN Rename(r, f)
  ELSE IF r.op = "copy" THEN Copy(r, f)
  ELSE IF r.op = "cd" THEN CD(r, f)
  ELSE IF r.op = "new" THEN New(r, f, blank)
  ELSE IF r.op \in {"cdup", "none"} THEN Result(f, 0, NoName)
  ELSE IF r.op = "empty" THEN Result(f, 30, NoName)
  ELSE IF r.op \in {"version", "reset"} THEN Result(f, 73, NoName)
  ELSE Result(f, 31, NoName)
=============================================================================

------------------------------- MODULE JsonStore -------------------------------
(***************************************************************************)
(* The missions of an agent in .qaio/activity/activity.json. Each request  *)
(* reads the whole list, changes it and writes it back (activity.rs) with  *)
(* a temporary file and a rename (write_file_atomic); so do the engine's   *)
(* own turns, which set the status of a card. No lock is held meanwhile    *)
(* and handlers run on several threads: between two system calls of one    *)
(* request, others do theirs. Routines, their runs and the knowledge base  *)
(* are stored by the same code. A crash of the engine is left out: with    *)
(* one request at a time it leaves at most a temporary file behind.        *)
(***************************************************************************)
EXTENDS Naturals, Sequences, FiniteSets, SequencesExt

CONSTANTS
  Requests,
  Job,           \* what each asks for: kind and mission
  Present,       \* the missions of the file at the start, as a sequence
  None, End

Original == "original"
Inodes   == Requests \cup {Original}   \* a file is named after the request that created it

VARIABLES
  pc,            \* where each request is
  items,         \* the list it is going to write
  file,          \* the inode it has open
  text,          \* the bytes of each inode
  path,          \* the inode called activity.json
  tmp            \* the inode called activity.tmp

vars == <<pc, items, file, text, path, tmp>>

Mission(id, status) == [id |-> id, status |-> status]

(* The text of a list is its rows, all of one length, and a closing bracket. *)
Written(list) == Append(list, End)
IsList(t)     == t # <<>> /\ \A i \in 1..Len(t) : t[i] = End <=> i = Len(t)

\* write_all from the beginning of a file that is not truncated meanwhile.
Overwritten(t, list) == Written(list) \o SubSeq(t, Len(list) + 2, Len(t))

Init ==
  /\ pc = [r \in Requests |-> "sent"]
  /\ items = [r \in Requests |-> <<>>]
  /\ file = [r \in Requests |-> None]
  /\ text = [i \in Inodes |-> IF i = Original THEN Written([k \in 1..Len(Present) |-> Mission(Present[k], "needs_you")])
                              ELSE <<>>]
  /\ path = Original
  /\ tmp = None

(***************************************************************************)
(* activity.rs                                                             *)
(***************************************************************************)

Ids(list) == {list[k].id : k \in 1..Len(list)}

\* create pushes a row; set_status_by_session_key and update change one, delete retains
\* the others. The last three find nothing to write when the mission is not there.
HasWork(list, job) == job.kind = "create" \/ job.id \in Ids(list)
Changed(list, job) ==
  CASE job.kind = "create" -> Append(list, Mission(job.id, "running"))
    [] job.kind = "status" -> [k \in 1..Len(list) |-> IF list[k].id = job.id THEN Mission(job.id, "running") ELSE list[k]]
    [] job.kind = "delete" -> SelectSeq(list, LAMBDA m : m.id # job.id)

\* read_json: an empty file is an empty list, a text that is no list is an error.
ReadJson(r) ==
  /\ pc[r] = "sent"
  /\ LET t    == text[path]
         list == IF t = <<>> THEN <<>> ELSE Front(t)
     IN IF (t = <<>> \/ IsList(t)) /\ HasWork(list, Job[r])
          THEN /\ items' = [items EXCEPT ![r] = Changed(list, Job[r])]
               /\ pc' = [pc EXCEPT ![r] = "read"]
          ELSE /\ pc' = [pc EXCEPT ![r] = "refused"]
               /\ UNCHANGED items
  /\ UNCHANGED <<file, text, path, tmp>>

(***************************************************************************)
(* write_file_atomic                                                       *)
(***************************************************************************)

\* File::create: the temporary name is the same for all; what it names is truncated.
CreateTmp(r) ==
  /\ pc[r] = "read"
  /\ tmp' = IF tmp = None THEN r ELSE tmp
  /\ file' = [file EXCEPT ![r] = tmp']
  /\ text' = [text EXCEPT ![tmp'] = <<>>]
  /\ pc' = [pc EXCEPT ![r] = "created"]
  /\ UNCHANGED <<items, path>>

\* write_all and sync_all
WriteTmp(r) ==
  /\ pc[r] = "created"
  /\ text' = [text EXCEPT ![file[r]] = Overwritten(@, items[r])]
  /\ pc' = [pc EXCEPT ![r] = "written"]
  /\ UNCHANGED <<items, file, path, tmp>>

\* rename: it moves whatever has the temporary name, and fails when nothing has it.
Rename(r) ==
  /\ pc[r] = "written"
  /\ path' = IF tmp = None THEN path ELSE tmp
  /\ tmp' = None
  /\ pc' = [pc EXCEPT ![r] = IF tmp = None THEN "refused" ELSE "answered"]
  /\ UNCHANGED <<items, file, text>>

Next == \E r \in Requests : ReadJson(r) \/ CreateTmp(r) \/ WriteTmp(r) \/ Rename(r)

Spec == Init /\ [][Next]_vars

(***************************************************************************)
(* Properties                                                              *)
(***************************************************************************)

\* "Atomically write a typed value" (store.rs:42), "All writes: temp file + rename"
\* (files-first.md:77): when no request is at work, the file is a list. It is never left
\* empty, which would be read as an agent without missions, nor as a text nobody can parse.
FileIsWhole ==
  (\A r \in Requests : pc[r] \in {"sent", "answered", "refused"}) => IsList(text[path])
================================================================================

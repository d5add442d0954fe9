--------------------------- MODULE SessionInputs ---------------------------
(***************************************************************************)
(* Which logs an analyzer run reads (discovery.rs, and the input half of   *)
(* main.rs).  Inputs are named on the command line or discovered in the    *)
(* session directory; either way they are resolved to identities first,    *)
(* and opened again by path, one by one, while the analysis advances.      *)
(*                                                                         *)
(* Nothing locks the directory: the collector publishes, retention prunes, *)
(* purge quarantines, the user renames or changes modes between any two    *)
(* system calls.  An inode is one file: numbers are not reused during a    *)
(* run and published logs are not rewritten in place.                      *)
(***************************************************************************)
EXTENDS Integers, Sequences, FiniteSets

CONSTANTS Names,       \* names in the directory, in the order of their bytes
          Finalized,   \* nvim-key-insights-<session>.jsonl
          Partial,     \* *.jsonl.part
          Inodes, None,
          Dirs,        \* directories that are at the given path at some time
          MaxEntries,  \* maximum_entries
          MaxInputs,   \* maximum_inputs, MAX_SESSIONS_PER_LOG
          MaxChanges   \* bound: changes made by others

ASSUME InputConstants ==
  /\ Names \subseteq Nat /\ Finalized \subseteq Names /\ Partial \subseteq Names
  /\ None \notin Inodes /\ MaxEntries \in Nat /\ MaxInputs \in Nat

VARIABLES
  entries,    \* the file each name of each directory stands for
  current,    \* the directory at the path
  restricted, \* the inodes that are owned by the user and have mode 0600
  changes,    \* changes others may still make
  exposed,    \* history: names that ever stood for a file that is not private
  request,    \* the command line
  outputs,    \* the inodes the summary and report paths stand for
  pc, handle, \* the opened session directory
  todo,       \* names still to inspect
  before,     \* metadata of the name being opened
  file,       \* the inode opened for it
  listed,     \* history: the finalized names of the listing
  inputs,     \* resolved inputs
  read,       \* inodes opened by the analysis, in order
  outcome

world == <<entries, current, restricted, changes, exposed>>
given == <<request, outputs>>
run == <<pc, handle, todo, before, file, listed, inputs, read, outcome>>
inputVars == <<world, given, run>>

Slots == Dirs \X Names
Requests == [directory : BOOLEAN, names : Seq(Names)]
Inputs == [name : Names, ino : Inodes]
Steps == {"start", "list", "verify", "inspect", "open", "match", "explicit", "resolve", "read", "done"}

(* is_private_file_owned_by_current_user, is_private_input_metadata: one link *)
(* and the right mode.                                                        *)
Private(es, m, i) ==
  /\ i \in m
  /\ \A s, t \in Slots : es[s] = i /\ es[t] = i => s = t

ExposedIn(es, m) == {n \in Names : \E d \in Dirs : es[<<d, n>>] # None /\ ~Private(es, m, es[<<d, n>>])}

InputInit ==
  /\ entries \in [Slots -> Inodes \cup {None}] /\ current \in Dirs /\ restricted \in SUBSET Inodes
  /\ changes \in 0..MaxChanges
  /\ exposed = ExposedIn(entries, restricted)
  /\ request \in Requests /\ outputs \in SUBSET Inodes
  /\ pc = "start" /\ handle = current /\ todo = {} /\ before = None /\ file = None
  /\ listed = {} /\ inputs = <<>> /\ read = <<>> /\ outcome = "running"

Child(n) == entries[<<handle, n>>]       \* child_metadata, relative to the opened directory
AtPath(n) == entries[<<current, n>>]     \* a lookup through the path
IsCurrent == handle = current            \* verify_current
Fresh(i) == \A j \in DOMAIN inputs : inputs[j].ino # i
Least(S) == CHOOSE n \in S : \A m \in S : n <= m

Fail ==
  /\ pc' = "done" /\ outcome' = "failed"
  /\ UNCHANGED <<world, given, handle, todo, before, file, listed, inputs, read>>
Go(step) ==
  /\ pc' = step
  /\ UNCHANGED <<world, given, listed, read, outcome>>

(* run: a session directory and explicit inputs exclude each other. *)
Start ==
  /\ pc = "start"
  /\ IF request.directory
     THEN Go("list") /\ handle' = current /\ UNCHANGED <<todo, before, file, inputs>>
     ELSE Go("explicit") /\ UNCHANGED <<handle, todo, before, file, inputs>>

(* discover_session_inputs: the names come from the opened directory, which *)
(* must be the one at the path before and after the listing.                *)
List ==
  /\ pc = "list"
  /\ LET names == {n \in Names : Child(n) # None}
     IN  IF IsCurrent /\ Cardinality(names) <= MaxEntries
         THEN /\ pc' = "verify" /\ todo' = names \cap Finalized /\ listed' = names \cap Finalized
              /\ UNCHANGED <<world, given, handle, before, file, inputs, read, outcome>>
         ELSE Fail

VerifyListing ==
  /\ pc = "verify"
  /\ IF IsCurrent THEN Go("inspect") /\ UNCHANGED <<handle, todo, before, file, inputs>> ELSE Fail

InspectSkippingMissing ==
  /\ pc = "inspect" /\ todo # {}
  /\ LET n == Least(todo)
     IN  IF Child(n) = None \/ ~Private(entries, restricted, Child(n))
         THEN Go("inspect") /\ todo' = todo \ {n} /\ UNCHANGED <<handle, before, file, inputs>>
         ELSE Go("open") /\ before' = Child(n) /\ UNCHANGED <<handle, todo, file, inputs>>

(* A name that is gone ends the run; a file that is not private is skipped. *)
Inspect ==
  /\ pc = "inspect" /\ todo # {}
  /\ LET n == Least(todo)
     IN  IF Child(n) = None
         THEN Fail
         ELSE IF ~Private(entries, restricted, Child(n))
         THEN Go("inspect") /\ todo' = todo \ {n} /\ UNCHANGED <<handle, before, file, inputs>>
         ELSE Go("open") /\ before' = Child(n) /\ UNCHANGED <<handle, todo, file, inputs>>

(* open_read_file: the file must be there and have mode 0600. *)
OpenChild ==
  /\ pc = "open"
  /\ IF Child(Least(todo)) \in restricted
     THEN Go("match") /\ file' = Child(Least(todo)) /\ UNCHANGED <<handle, todo, before, inputs>>
     ELSE Fail

MatchChildAtLimit ==
  /\ pc = "match"
  /\ LET n == Least(todo)
     IN  IF /\ Child(n) = before /\ Child(n) = file /\ Private(entries, restricted, file)
            /\ Len(inputs) <= MaxInputs /\ Fresh(file)
         THEN /\ Go("inspect") /\ todo' = todo \ {n} /\ UNCHANGED <<handle, before, file>>
              /\ inputs' = Append(inputs, [name |-> n, ino |-> file])
         ELSE Fail

(* The name still stands for the inspected file, which is the opened one and *)
(* private; then it becomes an input and is closed again.                    *)
MatchChild ==
  /\ pc = "match"
  /\ LET n == Least(todo)
     IN  IF /\ Child(n) = before /\ Child(n) = file /\ Private(entries, restricted, file)
            /\ Len(inputs) < MaxInputs /\ Fresh(file)
         THEN /\ Go("inspect") /\ todo' = todo \ {n} /\ UNCHANGED <<handle, before, file>>
              /\ inputs' = Append(inputs, [name |-> n, ino |-> file])
         ELSE Fail

EndDiscovery ==
  /\ pc = "inspect" /\ todo = {}
  /\ IF IsCurrent /\ inputs # <<>>
     THEN Go("resolve") /\ UNCHANGED <<handle, todo, before, file, inputs>>
     ELSE Fail

(* resolve_explicit_inputs, resolve_input_path: one argument after the other. *)
ResolveInput ==
  /\ pc = "explicit" /\ Len(inputs) < Len(request.names)
  /\ LET n == request.names[Len(inputs) + 1]
     IN  IF AtPath(n) # None /\ n \notin Partial /\ Fresh(AtPath(n)) /\ Len(inputs) < MaxInputs
         THEN /\ Go("explicit") /\ inputs' = Append(inputs, [name |-> n, ino |-> AtPath(n)])
              /\ UNCHANGED <<handle, todo, before, file>>
         ELSE Fail

EndExplicit ==
  /\ pc = "explicit" /\ Len(inputs) = Len(request.names)
  /\ IF inputs # <<>> THEN Go("resolve") /\ UNCHANGED <<handle, todo, before, file, inputs>> ELSE Fail

(* resolve_paths_for_inputs: no output may stand for an input. *)
ResolveOutputs ==
  /\ pc = "resolve"
  /\ IF \A j \in DOMAIN inputs : inputs[j].ino \notin outputs
     THEN Go("read") /\ UNCHANGED <<handle, todo, before, file, inputs>>
     ELSE Fail

(* RevalidatedInputReader: the path must still lead to the resolved file, and *)
(* a discovered one must still be private.                                    *)
Revalidated(input) ==
  /\ AtPath(input.name) = input.ino
  /\ request.directory => Private(entries, restricted, input.ino)

ReadNext ==
  /\ pc = "read" /\ Len(read) < Len(inputs)
  /\ LET input == inputs[Len(read) + 1]
     IN  IF Revalidated(input)
         THEN /\ pc' = "read" /\ read' = Append(read, AtPath(input.name))
              /\ UNCHANGED <<world, given, handle, todo, before, file, listed, inputs, outcome>>
         ELSE Fail

(* The analysis refuses what it read. *)
Reject == pc = "read" /\ read # <<>> /\ Fail

EndReading ==
  /\ pc = "read" /\ Len(read) = Len(inputs)
  /\ pc' = "done" /\ outcome' = "ok"
  /\ UNCHANGED <<world, given, handle, todo, before, file, listed, inputs, read>>

(* Any system call may fail; each failure ends the run. *)
Break == pc # "done" /\ Fail

Scan == Start \/ List \/ VerifyListing \/ Inspect \/ OpenChild \/ MatchChild \/ EndDiscovery
Resolve == ResolveInput \/ EndExplicit \/ ResolveOutputs

(***************************************************************************)
(* What others do to the directory.                                        *)
(***************************************************************************)
Change ==
  /\ pc # "done" /\ changes > 0 /\ changes' = changes - 1
  /\ exposed' = exposed \cup ExposedIn(entries', restricted')
  /\ UNCHANGED <<given, run>>

(* A new file takes a name, free or not: a publication or a rename. *)
Put(s, i) ==
  /\ \A t \in Slots : entries[t] # i
  /\ entries' = [entries EXCEPT ![s] = i] /\ UNCHANGED <<current, restricted>>
  /\ Change
Unlink(s) ==
  /\ entries[s] # None
  /\ entries' = [entries EXCEPT ![s] = None] /\ UNCHANGED <<current, restricted>>
  /\ Change
(* The first half of a quarantine: a second name for the file. *)
LinkTo(s, t) ==
  /\ s[1] = t[1] /\ entries[s] # None /\ entries[t] = None
  /\ entries' = [entries EXCEPT ![t] = entries[s]] /\ UNCHANGED <<current, restricted>>
  /\ Change
ChangeMode(i) ==
  /\ restricted' = (restricted \ {i}) \cup ({i} \ restricted) /\ UNCHANGED <<entries, current>>
  /\ Change
ReplaceDirectory(d) ==
  /\ d # current /\ current' = d /\ UNCHANGED <<entries, restricted>>
  /\ Change

Others ==
  \/ \E s \in Slots, i \in Inodes : Put(s, i)
  \/ \E s \in Slots : Unlink(s)
  \/ \E s, t \in Slots : LinkTo(s, t)
  \/ \E i \in Inodes : ChangeMode(i)
  \/ \E d \in Dirs : ReplaceDirectory(d)

InputNext == Scan \/ Resolve \/ ReadNext \/ Reject \/ EndReading \/ Break \/ Others
InputSpec == InputInit /\ [][InputNext]_inputVars

(***************************************************************************)
(* Properties.                                                             *)
(***************************************************************************)

(* The variables have their types, and the inputs keep their limit. *)
TypeOK ==
  /\ entries \in [Slots -> Inodes \cup {None}] /\ current \in Dirs /\ restricted \in SUBSET Inodes
  /\ changes \in Int /\ exposed \in SUBSET Names
  /\ request \in Requests /\ outputs \in SUBSET Inodes
  /\ pc \in Steps /\ handle \in Dirs
  /\ todo \in SUBSET Names /\ listed \in SUBSET Names
  /\ before \in Inodes \cup {None} /\ file \in Inodes \cup {None}
  /\ inputs \in Seq(Inputs) /\ Len(inputs) <= MaxInputs
  /\ read \in Seq(Inodes) /\ Len(read) <= Len(inputs)
  /\ outcome \in {"running", "ok", "failed"}

(* A run that succeeds has analyzed the whole directory listing: each        *)
(* finalized log was read, unless somebody had made it not private, and      *)
(* nothing that was not listed; and whatever the inputs, each was the file   *)
(* resolved at first, read once, in order, and is none of the outputs.       *)
(* Whatever happens to the directory in between (discover_session_inputs,    *)
(* RevalidatedInputReader).                                                  *)
WholeListing ==
  outcome = "ok" =>
    /\ request.directory =>
         /\ \A n \in listed : n \in exposed \/ \E j \in DOMAIN inputs : inputs[j].name = n
         /\ \A j \in DOMAIN inputs : inputs[j].name \in listed
    /\ Len(read) = Len(inputs) /\ inputs # <<>>
    /\ \A j \in DOMAIN inputs : read[j] = inputs[j].ino /\ read[j] \notin outputs
    /\ \A j, k \in DOMAIN inputs : read[j] = read[k] => j = k
=============================================================================

---------------------------- MODULE PairingStorage ----------------------------
(***************************************************************************)
(* filePairingStorage: pairings kept in one JSON file, which every         *)
(* operation reads whole and every change rewrites whole, without a lock.  *)
(* Clients are goroutines or processes that use the same file.  Opening,   *)
(* writing the initial "{}", reading, truncating and writing are separate  *)
(* system calls, between which others run and a process may die, and each  *)
(* of which may fail.                                                      *)
(***************************************************************************)
EXTENDS Naturals

CONSTANTS
    Client,   \* users of the file
    Id,       \* pairing IDs
    Data,     \* pairing data
    Crashes,  \* whether a client may die during an operation
    Failures, \* whether a system call may fail (I/O error, no space, ...)
    NONE

ASSUME NoneAssumption == NONE \notin Data \union Id
ASSUME IdAssumption == Id # {}

VARIABLES
    serial,   \* whether one operation ends before the next: never changes
    form,     \* what the file is: "absent", "empty", "json" or "torn";
              \* or "sealed": it exists, but nobody can open it
    content,  \* the pairings a "json" file holds
    pc,       \* the system call each client is about to make
    op,       \* the operation each client is in
    view,     \* the pairingMap it has parsed, with its change applied
    result,   \* how its last operation ended
    due       \* history: what a get has to find, see Durable

vars == <<serial, form, content, pc, op, view, result, due>>

Pairings == [Id -> Data \union {NONE}]
Empty == [i \in Id |-> NONE]

Kind == {"save", "delete", "clear", "get"}
Op == [kind : Kind, id : Id, data : Data \union {NONE}]
NoOp == [kind |-> "none", id |-> NONE, data |-> NONE]

Operations ==
    [kind : {"save"}, id : Id, data : Data] \union
    [kind : {"delete", "get"}, id : Id, data : {NONE}] \union
    {[kind |-> "clear", id |-> CHOOSE i \in Id : TRUE, data |-> NONE]}

(* The map that an operation commits. *)
Applied(o, m) ==
    CASE o.kind = "save"   -> [m EXCEPT ![o.id] = o.data]
      [] o.kind = "delete" -> [m EXCEPT ![o.id] = NONE]
      [] o.kind = "clear"  -> Empty
      [] OTHER             -> m

Init ==
    /\ serial \in BOOLEAN
    /\ form = "absent"
    /\ content = Empty
    /\ pc = [c \in Client |-> "idle"]
    /\ op = [c \in Client |-> NoOp]
    /\ view = [c \in Client |-> Empty]
    /\ result = [c \in Client |-> "none"]
    /\ due = Empty

(* The operation ends, and forgets what it has read. *)
Return(c, outcome) ==
    /\ pc' = [pc EXCEPT ![c] = "idle"]
    /\ op' = [op EXCEPT ![c] = NoOp]
    /\ view' = [view EXCEPT ![c] = Empty]
    /\ result' = [result EXCEPT ![c] = outcome]

(* History: gets may overlap gets; any other overlap leaves nothing due. *)
Overlaps(c, o) ==
    \E b \in Client \ {c} :
        pc[b] # "idle" /\ ~(o.kind = "get" /\ op[b].kind = "get")

(* An operation is called. *)
Begin(c, o) ==
    /\ pc[c] = "idle"
    /\ serial => \A b \in Client : pc[b] = "idle"
    /\ op' = [op EXCEPT ![c] = o]
    /\ pc' = [pc EXCEPT ![c] = "opening"]
    /\ result' = [result EXCEPT ![c] = "none"]
    /\ due' = IF Overlaps(c, o) THEN Empty ELSE Applied(o, due)
    /\ UNCHANGED <<form, content, view>>

(* A partial write spoils the file. *)
Tear ==
    /\ form' = IF form = "sealed" THEN form ELSE "torn"
    /\ content' = Empty

(* parseFile returns an error.  savePairing returns it, getPairing returns *)
(* an empty pairing and no error, and deletePairing and clearAllPairings   *)
(* go on with a nil map, which they will commit over whatever the file     *)
(* holds: nothing is due any more.                                         *)
ParseFails(c) ==
    LET o == op[c] IN
    \/ /\ o.kind = "get"
       /\ Return(c, "ok")
       /\ UNCHANGED due
    \/ /\ o.kind = "save"
       /\ Return(c, "error")
       /\ due' = [due EXCEPT ![o.id] = NONE]
    \/ /\ o.kind \in {"delete", "clear"}
       /\ view' = [view EXCEPT ![c] = Empty]
       /\ pc' = [pc EXCEPT ![c] = "committing"]
       /\ due' = Empty
       /\ UNCHANGED <<op, result>>

(* Mutant: "{}" is written whatever the size of the file. *)
OpenAnyFile(c) ==
    /\ pc[c] = "opening"
    /\ form # "sealed"
    /\ form' = IF form = "absent" THEN "empty" ELSE form
    /\ pc' = [pc EXCEPT ![c] = "creating"]
    /\ UNCHANGED <<content, op, view, result, due>>

(* createIfNotExists: open or create the file and look at its size; either *)
(* may fail.                                                               *)
OpenFile(c) ==
    /\ pc[c] = "opening"
    /\ UNCHANGED content
    /\ \/ /\ form # "sealed"
          /\ IF form \in {"absent", "empty"}
             THEN form' = "empty" /\ pc' = [pc EXCEPT ![c] = "creating"]
             ELSE form' = form /\ pc' = [pc EXCEPT ![c] = "reading"]
          /\ UNCHANGED <<op, view, result, due>>
       \/ /\ Failures \/ form = "sealed"
          /\ \/ form' = form
             \/ form = "absent" /\ form' = "empty"
          /\ ParseFails(c)

(* The file with "{}" at its start: if it has been filled meanwhile, its   *)
(* first bytes are overwritten.                                            *)
Braced ==
    /\ form' = IF form = "empty" \/ (form = "json" /\ content = Empty)
               THEN "json" ELSE "torn"
    /\ content' = Empty

(* ... and write "{}" at the start of a file that had size zero, and seek  *)
(* back.  A failed write leaves nothing or "{"; a failed seek leaves "{}". *)
WriteBraces(c) ==
    /\ pc[c] = "creating"
    /\ \/ /\ Braced
          /\ pc' = [pc EXCEPT ![c] = "reading"]
          /\ UNCHANGED <<op, view, result, due>>
       \/ /\ Failures
          /\ Braced \/ UNCHANGED <<form, content>> \/ (form = "empty" /\ Tear)
          /\ ParseFails(c)

(* Mutant: what is left of an interrupted write counts as parsed. *)
Salvaged(c) ==
    /\ pc[c] = "reading"
    /\ op[c].kind # "get"
    /\ \E m \in Pairings :
          /\ form = "json" => m = content
          /\ view' = [view EXCEPT ![c] = Applied(op[c], m)]
    /\ pc' = [pc EXCEPT ![c] = "committing"]
    /\ UNCHANGED <<form, content, op, result, due>>

(* parseFile: read and parse, and apply the change to the map. *)
Read(c) ==
    /\ pc[c] = "reading"
    /\ UNCHANGED <<form, content>>
    /\ LET o == op[c] IN
       \/ /\ form = "json" /\ o.kind = "get"
          /\ Return(c, IF content[o.id] = NONE THEN "error" ELSE "ok")
          /\ UNCHANGED due
       \/ /\ form = "json" /\ o.kind # "get"
          /\ view' = [view EXCEPT ![c] = Applied(o, content)]
          /\ pc' = [pc EXCEPT ![c] = "committing"]
          /\ UNCHANGED <<op, result, due>>
       \/ /\ Failures \/ form # "json"
          /\ ParseFails(c)

(* Only savePairing reports an error of commitFile. *)
Failed(c) == Return(c, IF op[c].kind = "save" THEN "error" ELSE "ok")

(* commitFile: os.WriteFile truncates the file, or creates it with mode 0, *)
(* after which only a superuser can open it.  If it cannot open the file,  *)
(* that keeps what it has ...                                              *)
Truncate(c) ==
    /\ pc[c] = "committing"
    /\ \/ /\ form # "sealed"
          /\ form' \in {"empty"} \union (IF form = "absent" THEN {"sealed"} ELSE {})
          /\ content' = Empty
          /\ pc' = [pc EXCEPT ![c] = "writing"]
          /\ UNCHANGED <<op, view, result, due>>
       \/ /\ Failures \/ form = "sealed"
          /\ Failed(c)
          /\ due' = IF op[c].kind = "save" THEN [due EXCEPT ![op[c].id] = NONE]
                    ELSE due
          /\ UNCHANGED <<form, content>>

(* The whole map is written from the start of the file.  If another client *)
(* has written a longer text since, the end of that remains.               *)
WrittenOver(m) ==
    LET over == IF form = "json" THEN content ELSE Empty IN
    \/ /\ form # "sealed"
       /\ m = Empty => over = Empty
       /\ form' = "json" /\ content' = m
    \/ /\ form \in {"torn", "sealed"} \/ over \notin {Empty, m}
       /\ Tear

(* ... and writes it.  A failed write may have reached the file in part or *)
(* whole (an error on close), and what was in the file is gone already.    *)
Write(c) ==
    /\ pc[c] = "writing"
    /\ \/ /\ WrittenOver(view[c])
          /\ Return(c, "ok")
          /\ UNCHANGED due
       \/ /\ Failures
          /\ WrittenOver(view[c]) \/ Tear \/ UNCHANGED <<form, content>>
          /\ Failed(c)
          /\ due' = Empty

(* The client dies; a write it was in may have reached the file in part. *)
Crash(c) ==
    /\ Crashes
    /\ pc[c] # "idle"
    /\ \/ UNCHANGED <<form, content>>
       \/ pc[c] = "creating" /\ form = "empty" /\ Tear
       \/ pc[c] = "writing" /\ Tear
    /\ Return(c, "none")
    /\ due' = IF op[c].kind = "get" THEN due ELSE Empty

ClientStep(c) ==
    \/ \E o \in Operations : Begin(c, o)
    \/ OpenFile(c) \/ WriteBraces(c) \/ Read(c) \/ Truncate(c) \/ Write(c)
    \/ Crash(c)

Next == (\E c \in Client : ClientStep(c)) /\ UNCHANGED serial

Spec == Init /\ [][Next]_vars

-----------------------------------------------------------------------------
(* Properties. *)

(* The type of every variable. *)
TypeOK ==
    /\ serial \in BOOLEAN
    /\ form \in {"absent", "empty", "json", "torn", "sealed"}
    /\ content \in Pairings
    /\ form # "json" => content = Empty
    /\ pc \in [Client -> {"idle", "opening", "creating", "reading",
                          "committing", "writing"}]
    /\ op \in [Client -> Op \union {NoOp}]
    /\ view \in [Client -> Pairings]
    /\ result \in [Client -> {"none", "ok", "error"}]
    /\ due \in Pairings

(* A change takes effect when the file is truncated for it.  Nothing is    *)
(* said of operations that overlap.                                        *)
Stored == IF ~serial THEN Empty
          ELSE IF \E c \in Client : pc[c] = "writing"
          THEN view[CHOOSE c \in Client : pc[c] = "writing"]
          ELSE content

Abstract ==
    INSTANCE PairingMap WITH store <- Stored, MayLose <- Crashes \/ Failures

(* One operation at a time, the file is the map that the in-memory storage *)
(* keeps; and if clients die during operations or system calls fail, what  *)
(* is lost is everything or nothing: no operation ever works on part of    *)
(* what was saved.                                                         *)
ImplementsMap == Abstract!Spec

(* A get that reads the file has the pairing before it whose save no other *)
(* operation overlapped, until that pairing is saved again or deleted, or  *)
(* an operation other than a get overlaps another, dies, fails while it    *)
(* writes, or is a delete or clear that fails to read the file (which then *)
(* commits an empty map).  Any number of gets, gets that fail or die, and  *)
(* saves of other pairings that fail to read the file or to open it for    *)
(* writing leave it in the file.                                           *)
Durable ==
    \A c \in Client, i \in Id :
        (pc[c] = "reading" /\ op[c].kind = "get" /\ due[i] # NONE)
            => content[i] = due[i]

(* The inductive invariant of the proofs. *)

Alone(c) == \A b \in Client \ {c} : pc[b] = "idle"

(* A client that runs was called with some operation, and a get changes    *)
(* nothing.                                                                *)
Called ==
    \A c \in Client : pc[c] # "idle" =>
        /\ op[c] \in Operations
        /\ pc[c] \in {"committing", "writing"} => op[c].kind # "get"

(* m has what gets have to find. *)
Holds(m) == \A i \in Id : due[i] # NONE => m[i] = due[i]

(* While something is due only gets run, which find it in the file, ... *)
GetsFind ==
    /\ form = "json" /\ Holds(content)
    /\ \A c \in Client :
          pc[c] # "idle" => op[c].kind = "get" /\ pc[c] \in {"opening", "reading"}

(* ... or one change does, which puts it there. *)
ChangeBrings ==
    \E c \in Client :
        /\ Alone(c) /\ pc[c] # "idle" /\ op[c].kind # "get"
        /\ pc[c] \in {"creating", "writing"} => form = "empty"
        /\ pc[c] = "committing" =>
              form = "json" /\ view[c] = Applied(op[c], content)
        /\ Holds(IF pc[c] \in {"committing", "writing"} THEN view[c]
                 ELSE Applied(op[c], content))

DueKept == due # Empty => GetsFind \/ ChangeBrings

(* Of operations one at a time, that which runs has the file to itself,    *)
(* and the map it commits is the changed content, or the nil map that a    *)
(* delete or clear goes on with when it could not read the file.           *)
Undisturbed ==
    serial => \A c \in Client : pc[c] # "idle" =>
        /\ Alone(c)
        /\ pc[c] = "creating" => form = "empty"
        /\ pc[c] = "writing" => form = "empty" \/ (form = "sealed" /\ view[c] = Empty)
        /\ pc[c] = "committing" =>
              \/ form = "json" /\ view[c] = Applied(op[c], content)
              \/ (Failures \/ content = Empty) /\ op[c].kind # "save" /\ view[c] = Empty

IInv == TypeOK /\ Called /\ DueKept /\ Undisturbed

=============================================================================

------------------------- MODULE PairingStorageProofs -------------------------
(***************************************************************************)
(* Proofs about PairingStorage: its inductive invariant, that every get    *)
(* finds what is due to it, and that one operation at a time the file      *)
(* implements the map of PairingMap, for any clients, IDs and data.        *)
(***************************************************************************)
EXTENDS PairingStorage, TLAPS

-----------------------------------------------------------------------------
(* Maps. *)

LEMMA EmptyIsPairings == Empty \in Pairings
  BY DEF Empty, Pairings

(* The changes that operations make. *)
LEMMA AppliedCases ==
  ASSUME NEW o, o \in Operations, NEW m \in Pairings
  PROVE  /\ Applied(o, m) \in Pairings
         /\ o.kind = "save" => /\ o.id \in Id /\ o.data \in Data
                               /\ Applied(o, m) = [m EXCEPT ![o.id] = o.data]
         /\ o.kind = "delete" => /\ o.id \in Id
                                 /\ Applied(o, m) = [m EXCEPT ![o.id] = NONE]
         /\ o.kind = "clear" => Applied(o, m) = Empty
         /\ o.kind = "get" => Applied(o, m) = m
         /\ o.kind \in {"save", "delete", "clear", "get"}
         /\ o \in Op
<1>1. o.kind \in {"save", "delete", "clear", "get"} BY DEF Operations
<1>2. CASE o.kind = "save"
  <2>1. o \in [kind : {"save"}, id : Id, data : Data]
    BY <1>2 DEF Operations
  <2>2. Applied(o, m) = [m EXCEPT ![o.id] = o.data]
    BY <1>2 DEF Applied
  <2> QED BY <1>2, <2>1, <2>2 DEF Pairings, Op, Kind
<1>3. CASE o.kind = "delete"
  <2>1. o \in [kind : {"delete", "get"}, id : Id, data : {NONE}]
    BY <1>3 DEF Operations
  <2>2. Applied(o, m) = [m EXCEPT ![o.id] = NONE]
    BY <1>3 DEF Applied
  <2> QED BY <1>3, <2>1, <2>2 DEF Pairings, Op, Kind
<1>4. CASE o.kind = "clear"
  <2>1. o = [kind |-> "clear", id |-> CHOOSE i \in Id : TRUE, data |-> NONE]
    BY <1>4 DEF Operations
  <2>2. (CHOOSE i \in Id : TRUE) \in Id
    BY IdAssumption
  <2>3. o \in Op
    BY <2>1, <2>2 DEF Op, Kind
  <2>4. Applied(o, m) = Empty
    BY <1>4 DEF Applied
  <2> QED BY <1>4, <2>3, <2>4, EmptyIsPairings
<1>5. CASE o.kind = "get"
  <2>1. o \in [kind : {"delete", "get"}, id : Id, data : {NONE}]
    BY <1>5 DEF Operations
  <2>2. Applied(o, m) = m
    BY <1>5 DEF Applied
  <2> QED BY <1>5, <2>1, <2>2 DEF Op, Kind
<1> QED BY <1>1, <1>2, <1>3, <1>4, <1>5

(* What is due and what is held stay together through a change. *)
LEMMA AppliedHolds ==
  ASSUME NEW o, o \in Operations, NEW d \in Pairings, NEW m \in Pairings,
         \A i \in Id : d[i] # NONE => m[i] = d[i]
  PROVE  \A i \in Id : Applied(o, d)[i] # NONE
                          => Applied(o, m)[i] = Applied(o, d)[i]
<1>1. CASE o.kind \in {"save", "delete"}
  BY <1>1, AppliedCases DEF Pairings
<1>2. CASE o.kind \in {"clear", "get"}
  BY <1>2, AppliedCases
<1> QED BY <1>1, <1>2, AppliedCases

-----------------------------------------------------------------------------
(* The invariant. *)

LEMMA InitHolds == Init => IInv
<1> SUFFICES ASSUME Init PROVE IInv OBVIOUS
<1>1. TypeOK BY EmptyIsPairings DEF Init, TypeOK
<1>2. Called /\ DueKept /\ Undisturbed
  BY DEF Init, Called, DueKept, Undisturbed
<1> QED BY <1>1, <1>2 DEF IInv

LEMMA ParseFailsTypes ==
  ASSUME NEW c \in Client, TypeOK, ParseFails(c)
  PROVE  /\ pc' \in [Client -> {"idle", "opening", "creating", "reading",
                                "committing", "writing"}]
         /\ op' \in [Client -> Op \union {NoOp}]
         /\ view' \in [Client -> Pairings]
         /\ result' \in [Client -> {"none", "ok", "error"}]
         /\ due' \in Pairings
<1>1. due' \in Pairings
  BY EmptyIsPairings DEF ParseFails, TypeOK, Pairings
<1> QED BY <1>1, EmptyIsPairings DEF ParseFails, Return, TypeOK

LEMMA TypeStep == TypeOK /\ Called /\ Next => TypeOK'
<1> SUFFICES ASSUME TypeOK, Called, Next, NEW c \in Client, ClientStep(c)
             PROVE  TypeOK'
  BY DEF Next
<1>1. serial' = serial BY DEF Next
<1>2. ASSUME NEW o \in Operations, Begin(c, o) PROVE TypeOK'
  <2>1. o \in Op BY <1>2, AppliedCases, EmptyIsPairings
  <2>2. due' \in Pairings
    BY <1>2, AppliedCases, EmptyIsPairings DEF Begin, TypeOK
  <2> QED BY <1>1, <1>2, <2>1, <2>2 DEF Begin, TypeOK
<1>3. ASSUME OpenFile(c) PROVE TypeOK'
  <2>1. /\ form' \in {"absent", "empty", "json", "torn", "sealed"}
        /\ content' = content
        /\ form' # "json" => content' = Empty
    BY <1>3 DEF OpenFile, TypeOK
  <2>2. CASE ParseFails(c)
    BY <1>1, <2>1, <2>2, ParseFailsTypes DEF TypeOK
  <2>3. CASE ~ParseFails(c)
    BY <1>1, <1>3, <2>1, <2>3 DEF OpenFile, TypeOK
  <2> QED BY <2>2, <2>3
<1>4. ASSUME WriteBraces(c) PROVE TypeOK'
  <2>1. /\ form' \in {"absent", "empty", "json", "torn", "sealed"}
        /\ content' \in Pairings
        /\ form' # "json" => content' = Empty
    BY <1>4, EmptyIsPairings DEF WriteBraces, Braced, Tear, TypeOK
  <2> QED BY <1>1, <1>4, <2>1, ParseFailsTypes, EmptyIsPairings
          DEF WriteBraces, TypeOK
<1>5. ASSUME Read(c) PROVE TypeOK'
  <2>1. op[c] \in Operations BY <1>5 DEF Read, Called
  <2>2. Applied(op[c], content) \in Pairings
    BY <2>1, AppliedCases DEF TypeOK
  <2>3. CASE ParseFails(c)
    BY <1>1, <1>5, <2>3, ParseFailsTypes DEF Read, TypeOK
  <2>4. CASE ~ParseFails(c)
    BY <1>1, <1>5, <2>2, <2>4, EmptyIsPairings DEF Read, Return, TypeOK
  <2> QED BY <2>3, <2>4
<1>6. ASSUME Truncate(c) PROVE TypeOK'
  <2>1. due' \in Pairings BY <1>6 DEF Truncate, TypeOK, Pairings
  <2>2. form' \in {"absent", "empty", "json", "torn", "sealed"}
    BY <1>6 DEF Truncate, TypeOK
  <2>3. content' \in Pairings /\ (form' # "json" => content' = Empty)
    BY <1>6, EmptyIsPairings DEF Truncate, TypeOK
  <2> QED BY <1>1, <1>6, <2>1, <2>2, <2>3, EmptyIsPairings
          DEF Truncate, Failed, Return, TypeOK
<1>7. ASSUME Write(c) PROVE TypeOK'
  <2>1. /\ form' \in {"absent", "empty", "json", "torn", "sealed"}
        /\ content' \in Pairings
        /\ form' # "json" => content' = Empty
    BY <1>7, EmptyIsPairings DEF Write, WrittenOver, Tear, TypeOK
  <2> QED BY <1>1, <1>7, <2>1, EmptyIsPairings DEF Write, Failed, Return, TypeOK
<1>8. ASSUME Crash(c) PROVE TypeOK'
  BY <1>1, <1>8, EmptyIsPairings DEF Crash, Tear, Return, TypeOK
<1> QED BY <1>2, <1>3, <1>4, <1>5, <1>6, <1>7, <1>8 DEF ClientStep

LEMMA CalledStep == TypeOK /\ Called /\ Next => Called'
<1> SUFFICES ASSUME TypeOK, Called, Next, NEW c \in Client, ClientStep(c)
             PROVE  Called'
  BY DEF Next
<1> USE DEF TypeOK, Called
<1>1. ASSUME NEW o \in Operations, Begin(c, o) PROVE Called'
  BY <1>1 DEF Begin
<1>2. ASSUME ParseFails(c), pc[c] # "idle" PROVE Called'
  BY <1>2 DEF ParseFails, Return
<1>3. ASSUME OpenFile(c) PROVE Called'
  <2>1. CASE ParseFails(c) BY <1>2, <1>3, <2>1 DEF OpenFile
  <2>2. CASE ~ParseFails(c) BY <1>3, <2>2 DEF OpenFile
  <2> QED BY <2>1, <2>2
<1>4. ASSUME WriteBraces(c) PROVE Called'
  <2>1. CASE ParseFails(c) BY <1>2, <1>4, <2>1 DEF WriteBraces
  <2>2. CASE ~ParseFails(c) BY <1>4, <2>2 DEF WriteBraces
  <2> QED BY <2>1, <2>2
<1>5. ASSUME Read(c) PROVE Called'
  <2>1. CASE ParseFails(c) BY <1>2, <1>5, <2>1 DEF Read
  <2>2. CASE ~ParseFails(c) BY <1>5, <2>2 DEF Read, Return
  <2> QED BY <2>1, <2>2
<1>6. ASSUME Truncate(c) PROVE Called'
  BY <1>6 DEF Truncate, Failed, Return
<1>7. ASSUME Write(c) PROVE Called'
  BY <1>7 DEF Write, Failed, Return
<1>8. ASSUME Crash(c) PROVE Called' BY <1>8 DEF Crash, Return
<1> QED BY <1>1, <1>3, <1>4, <1>5, <1>6, <1>7, <1>8 DEF ClientStep

LEMMA UndisturbedStep == IInv /\ Next => Undisturbed'
<1> SUFFICES ASSUME IInv, Next, serial, NEW c \in Client, ClientStep(c)
             PROVE  Undisturbed'
  BY DEF Next, Undisturbed
<1> USE DEF IInv, TypeOK, Undisturbed, Alone
<1>1. ASSUME NEW o \in Operations, Begin(c, o) PROVE Undisturbed'
  <2>1. \A b \in Client : pc[b] = "idle" BY <1>1 DEF Begin
  <2>2. \A b \in Client : pc'[b] = IF b = c THEN "opening" ELSE "idle"
    BY <1>1, <2>1 DEF Begin
  <2> QED BY <2>2
<1>2. ASSUME ParseFails(c), pc[c] # "idle", Failures \/ content' = Empty
      PROVE  Undisturbed'
  BY <1>2 DEF ParseFails, Return
<1>3. ASSUME OpenFile(c) PROVE Undisturbed'
  <2>1. CASE ParseFails(c)
    <3>1. Failures \/ content' = Empty
      <4>1. CASE form = "sealed" BY <1>3, <4>1 DEF OpenFile
      <4>2. CASE form # "sealed" /\ ~Failures
        <5>1. pc'[c] \in {"creating", "reading"} /\ op' = op BY <1>3, <4>2 DEF OpenFile
        <5>2. pc'[c] \in {"idle", "committing"} BY <2>1 DEF ParseFails, Return
        <5> QED BY <5>1, <5>2
      <4> QED BY <4>1, <4>2
    <3> QED BY <1>2, <1>3, <2>1, <3>1 DEF OpenFile
  <2>2. CASE ~ParseFails(c) BY <1>3, <2>2 DEF OpenFile
  <2> QED BY <2>1, <2>2
<1>4. ASSUME WriteBraces(c) PROVE Undisturbed'
  <2>1. CASE ParseFails(c) /\ Failures BY <1>2, <1>4, <2>1 DEF WriteBraces
  <2>2. CASE ~(ParseFails(c) /\ Failures) BY <1>4, <2>2 DEF WriteBraces
  <2> QED BY <2>1, <2>2
<1>5. ASSUME Read(c) PROVE Undisturbed'
  <2>1. CASE ParseFails(c) /\ (Failures \/ form # "json")
    BY <1>2, <1>5, <2>1 DEF Read
  <2>2. CASE ~(ParseFails(c) /\ (Failures \/ form # "json"))
    BY <1>5, <2>2 DEF Read, Return
  <2> QED BY <2>1, <2>2
<1>6. ASSUME Truncate(c) PROVE Undisturbed'
  BY <1>6 DEF Truncate, Failed, Return
<1>7. ASSUME Write(c) PROVE Undisturbed'
  BY <1>7 DEF Write, Failed, Return
<1>8. ASSUME Crash(c) PROVE Undisturbed' BY <1>8 DEF Crash, Return
<1> QED BY <1>1, <1>3, <1>4, <1>5, <1>6, <1>7, <1>8 DEF ClientStep

(* While something is due, whoever runs a get is one of those that find it *)
(* and whoever runs a change is the one that brings it.                    *)
LEMMA DueSides ==
  ASSUME IInv, due # Empty, NEW c \in Client, pc[c] # "idle"
  PROVE  /\ content # Empty => form = "json"
         /\ op[c].kind = "get" => GetsFind /\ content # Empty
         /\ op[c].kind # "get" =>
               /\ Alone(c)
               /\ pc[c] \in {"creating", "writing"} => form = "empty"
               /\ pc[c] = "committing" =>
                     form = "json" /\ view[c] = Applied(op[c], content)
               /\ Holds(IF pc[c] \in {"committing", "writing"} THEN view[c]
                        ELSE Applied(op[c], content))
<1> USE DEF IInv, TypeOK
<1>1. CASE op[c].kind = "get"
  <2>1. ~ChangeBrings BY <1>1 DEF ChangeBrings, Alone
  <2>2. GetsFind BY <2>1 DEF DueKept
  <2>3. PICK i \in Id : due[i] # NONE BY DEF Pairings, Empty
  <2>4. content # Empty BY <2>2, <2>3 DEF GetsFind, Holds, Empty
  <2> QED BY <1>1, <2>2, <2>4
<1>2. CASE op[c].kind # "get"
  <2>1. ~GetsFind BY <1>2 DEF GetsFind
  <2>2. ChangeBrings BY <2>1 DEF DueKept
  <2> QED BY <1>2, <2>2 DEF ChangeBrings, Alone
<1> QED BY <1>1, <1>2

(* When a save fails, what is due of other pairings is in the file. *)
LEMMA SaveFailsKeeps ==
  ASSUME IInv, NEW c \in Client, due # Empty, op[c].kind = "save",
         pc[c] \in {"opening", "creating", "reading", "committing"},
         due' = [due EXCEPT ![op[c].id] = NONE], pc' = [pc EXCEPT ![c] = "idle"],
         content' = content, content # Empty => form' = form
  PROVE  DueKept'
<1> USE DEF IInv, TypeOK
<1>1. op[c] \in Operations BY DEF Called
<1>2. Applied(op[c], content) = [content EXCEPT ![op[c].id] = op[c].data]
  BY <1>1, AppliedCases
<1>3. Alone(c) /\ Holds(Applied(op[c], content))
  BY DueSides
<1>4. \A i \in Id : due'[i] # NONE => content[i] = due'[i]
  BY <1>1, <1>2, <1>3, AppliedCases DEF Holds, Pairings
<1>5. \A b \in Client : pc'[b] = "idle" BY <1>3 DEF Alone
<1>6. ASSUME due' # Empty PROVE form' = "json"
  <2>1. due' \in Pairings BY DEF Pairings
  <2>2. PICK i \in Id : due'[i] # NONE BY <1>6, <2>1 DEF Pairings, Empty
  <2>3. content # Empty BY <1>4, <2>2 DEF Empty
  <2> QED BY <2>3, DueSides
<1> QED BY <1>4, <1>5, <1>6 DEF DueKept, GetsFind, Holds

LEMMA ParseFailsKeeps ==
  ASSUME IInv, NEW c \in Client, ParseFails(c),
         pc[c] \in {"opening", "creating", "reading"},
         due # Empty =>
            content' = content /\ (content # Empty => form' = form)
  PROVE  DueKept'
<1> USE DEF IInv, TypeOK
<1>1. CASE due = Empty
  <2>1. due' = Empty
    BY <1>1 DEF ParseFails, Empty
  <2> QED BY <2>1 DEF DueKept
<1>2. CASE due # Empty /\ op[c].kind = "get"
  <2>1. GetsFind /\ content # Empty BY <1>2, DueSides
  <2>2. form' = form /\ content' = content BY <1>2, <2>1
  <2>3. pc' = [pc EXCEPT ![c] = "idle"] /\ op' = [op EXCEPT ![c] = NoOp] /\ due' = due
    BY <1>2 DEF ParseFails, Return
  <2>4. GetsFind' BY <2>1, <2>2, <2>3 DEF GetsFind, Holds
  <2> QED BY <2>4 DEF DueKept
<1>3. CASE due # Empty /\ op[c].kind = "save"
  <2>1. due' = [due EXCEPT ![op[c].id] = NONE] /\ pc' = [pc EXCEPT ![c] = "idle"]
    BY <1>3 DEF ParseFails, Return
  <2> QED BY <1>3, <2>1, SaveFailsKeeps
<1>4. CASE op[c].kind \in {"delete", "clear"}
  BY <1>4 DEF ParseFails, DueKept
<1> QED BY <1>1, <1>2, <1>3, <1>4 DEF ParseFails

LEMMA DueStep == IInv /\ Next => DueKept'
<1> SUFFICES ASSUME IInv, Next, NEW c \in Client, ClientStep(c)
             PROVE  DueKept'
  BY DEF Next
<1> USE DEF IInv, TypeOK, Called
<1>1. ASSUME NEW o \in Operations, Begin(c, o) PROVE DueKept'
  <2>1. CASE Overlaps(c, o)
    BY <1>1, <2>1 DEF Begin, DueKept
  <2>2. CASE ~Overlaps(c, o) /\ o.kind = "get"
    <3>1. due' = due
      BY <1>1, <2>2, AppliedCases DEF Begin
    <3>2. ~ChangeBrings
      BY <1>1, <2>2 DEF Begin, Overlaps, ChangeBrings, Alone
    <3>3. GetsFind => GetsFind'
      BY <1>1, <2>2, <3>1 DEF Begin, GetsFind, Holds
    <3> QED BY <3>1, <3>2, <3>3 DEF DueKept
  <2>3. CASE ~Overlaps(c, o) /\ o.kind # "get"
    <3>1. pc[c] = "idle" /\ Alone(c)
      BY <1>1, <2>3 DEF Begin, Overlaps, Alone
    <3>2. ~ChangeBrings
      BY <3>1 DEF ChangeBrings, Alone
    <3>3. \A i \in Id : due[i] # NONE => content[i] = due[i]
      BY <3>2 DEF DueKept, GetsFind, Holds, Empty
    <3>4. due' = Applied(o, due)
      BY <1>1, <2>3 DEF Begin
    <3>5. \A i \in Id : due'[i] # NONE => Applied(o, content)[i] = due'[i]
      BY <3>3, <3>4, AppliedHolds
    <3>6. Alone(c)' /\ pc'[c] = "opening" /\ op'[c] = o /\ content' = content
      BY <1>1, <3>1 DEF Begin, Alone
    <3> QED BY <2>3, <3>5, <3>6 DEF DueKept, ChangeBrings, Holds
  <2> QED BY <2>1, <2>2, <2>3
<1>2. ASSUME OpenFile(c) PROVE DueKept'
  <2>1. CASE ParseFails(c)
    <3>1. content' = content /\ (content # Empty => form' = form)
      BY <1>2 DEF OpenFile
    <3> QED BY <1>2, <2>1, <3>1, ParseFailsKeeps DEF OpenFile
  <2>2. CASE ~ParseFails(c)
    <3>1. GetsFind => GetsFind'
      BY <1>2, <2>2 DEF OpenFile, GetsFind, Holds
    <3>2. ChangeBrings => ChangeBrings'
      BY <1>2, <2>2 DEF OpenFile, ChangeBrings, Alone, Holds
    <3> QED BY <1>2, <2>2, <3>1, <3>2 DEF OpenFile, DueKept
  <2> QED BY <2>1, <2>2
<1>3. ASSUME WriteBraces(c) PROVE DueKept'
  <2>1. op[c].kind # "get" \/ due = Empty
    BY <1>3, DueSides DEF WriteBraces, GetsFind
  <2>2. due # Empty => form = "empty" /\ content = Empty /\ content' = Empty
    BY <1>3, <2>1, DueSides DEF WriteBraces, Braced, Tear
  <2>3. CASE ParseFails(c)
    BY <1>3, <2>2, <2>3, ParseFailsKeeps DEF WriteBraces
  <2>4. CASE ~ParseFails(c)
    <3>1. ~GetsFind BY <1>3 DEF WriteBraces, GetsFind
    <3>2. ChangeBrings => ChangeBrings'
      BY <1>3, <2>4 DEF WriteBraces, Braced, ChangeBrings, Alone, Holds
    <3> QED BY <1>3, <2>4, <3>1, <3>2 DEF WriteBraces, DueKept
  <2> QED BY <2>3, <2>4
<1>4. ASSUME Read(c) PROVE DueKept'
  <2>1. CASE ParseFails(c)
    BY <1>4, <2>1, ParseFailsKeeps DEF Read
  <2>2. CASE ~ParseFails(c) /\ op[c].kind = "get"
    <3>1. ~ChangeBrings
      BY <1>4, <2>2 DEF Read, ChangeBrings, Alone
    <3>2. GetsFind => GetsFind'
      BY <1>4, <2>2 DEF Read, Return, GetsFind, Holds
    <3> QED BY <1>4, <2>2, <3>1, <3>2 DEF Read, DueKept
  <2>3. CASE ~ParseFails(c) /\ op[c].kind # "get"
    <3>1. ~GetsFind
      BY <1>4, <2>3 DEF Read, GetsFind
    <3>2. /\ view' = [view EXCEPT ![c] = Applied(op[c], content)]
          /\ pc' = [pc EXCEPT ![c] = "committing"]
          /\ form = "json"
          /\ UNCHANGED <<op, due, form, content>>
      BY <1>4, <2>3 DEF Read
    <3>3. ChangeBrings => ChangeBrings'
      BY <1>4, <3>2 DEF Read, ChangeBrings, Alone, Holds
    <3> QED BY <3>1, <3>2, <3>3 DEF DueKept
  <2> QED BY <2>1, <2>2, <2>3
<1>5. ASSUME Truncate(c) PROVE DueKept'
  <2>0. pc[c] = "committing" /\ op[c].kind # "get"
    BY <1>5 DEF Truncate
  <2>1. ~GetsFind
    BY <2>0 DEF GetsFind
  <2>2. CASE pc'[c] = "writing"
    <3>1. ChangeBrings => ChangeBrings'
      BY <1>5, <2>2 DEF Truncate, Failed, Return, ChangeBrings, Alone, Holds
    <3> QED BY <1>5, <2>1, <2>2, <3>1 DEF Truncate, Failed, Return, DueKept
  <2>3. CASE pc'[c] # "writing"
    <3>1. /\ pc' = [pc EXCEPT ![c] = "idle"]
          /\ due' = IF op[c].kind = "save" THEN [due EXCEPT ![op[c].id] = NONE]
                    ELSE due
          /\ UNCHANGED <<form, content>>
      BY <1>5, <2>3 DEF Truncate, Failed, Return
    <3>2. CASE due = Empty
      <4>1. due' = Empty BY <3>1, <3>2 DEF Empty
      <4> QED BY <4>1 DEF DueKept
    <3>3. CASE due # Empty /\ op[c].kind = "save"
      BY <2>0, <3>1, <3>3, SaveFailsKeeps
    <3>4. CASE due # Empty /\ op[c].kind # "save"
      <4>1. /\ Alone(c) /\ form = "json"
            /\ Holds(Applied(op[c], content))
        BY <2>0, <3>4, DueSides
      <4>2. op[c] \in Operations /\ op[c].kind \in {"delete", "clear"}
        BY <2>0, <3>4, AppliedCases
      <4>3. \A i \in Id : Applied(op[c], content)[i] \in {NONE, content[i]}
        BY <4>2, AppliedCases DEF Pairings, Empty
      <4>4. Holds(content) BY <4>1, <4>3 DEF Holds
      <4>5. \A b \in Client : pc'[b] = "idle" BY <3>1, <4>1 DEF Alone
      <4> QED BY <3>1, <3>4, <4>1, <4>4, <4>5 DEF DueKept, GetsFind, Holds
    <3> QED BY <3>2, <3>3, <3>4
  <2> QED BY <2>2, <2>3
<1>6. ASSUME Write(c) PROVE DueKept'
  <2>1. CASE due' = Empty
    BY <2>1 DEF DueKept
  <2>2. CASE due' # Empty
    <3>1. due' = due /\ WrittenOver(view[c]) /\ pc' = [pc EXCEPT ![c] = "idle"]
      BY <1>6, <2>2 DEF Write, Return
    <3>2. pc[c] = "writing" /\ op[c].kind # "get" /\ due # Empty
      BY <1>6, <2>2, <3>1 DEF Write
    <3>3. Alone(c) /\ form = "empty" /\ Holds(view[c])
      BY <3>2, DueSides
    <3>4. form' = "json" /\ content' = view[c]
      BY <3>1, <3>3 DEF WrittenOver
    <3>5. \A b \in Client : pc'[b] = "idle"
      BY <3>1, <3>3 DEF Alone
    <3> QED BY <3>1, <3>3, <3>4, <3>5 DEF DueKept, GetsFind, Holds
  <2> QED BY <2>1, <2>2
<1>7. ASSUME Crash(c) PROVE DueKept'
  <2>1. CASE op[c].kind = "get"
    <3>1. ~ChangeBrings
      BY <1>7, <2>1 DEF Crash, ChangeBrings, Alone
    <3>2. GetsFind => GetsFind'
      BY <1>7, <2>1 DEF Crash, Return, GetsFind, Holds
    <3> QED BY <1>7, <2>1, <3>1, <3>2 DEF Crash, DueKept
  <2>2. CASE op[c].kind # "get"
    BY <1>7, <2>2 DEF Crash, DueKept
  <2> QED BY <2>1, <2>2
<1> QED BY <1>1, <1>2, <1>3, <1>4, <1>5, <1>6, <1>7 DEF ClientStep

LEMMA Invariance == IInv /\ [Next]_vars => IInv'
<1> SUFFICES ASSUME IInv, [Next]_vars PROVE IInv' OBVIOUS
<1>1. CASE Next
  BY <1>1, TypeStep, CalledStep, DueStep, UndisturbedStep DEF IInv
<1>2. CASE UNCHANGED vars
  BY <1>2 DEF vars, IInv, TypeOK, Called, DueKept, GetsFind, ChangeBrings,
              Alone, Holds, Undisturbed
<1> QED BY <1>1, <1>2

(* The named parts hold together: what is due is in the file, or in the    *)
(* hands of the one change that is putting it there.                       *)
THEOREM Inductive == Spec => []IInv
  BY InitHolds, Invariance, PTL DEF Spec

(* Every variable keeps its type, whoever overlaps whom and dies where.    *)
THEOREM TypeCorrect == Spec => []TypeOK
<1>1. IInv => TypeOK BY DEF IInv
<1> QED BY <1>1, Inductive, PTL

(* A get finds the pairing whose save nothing but gets has overlapped.     *)
THEOREM DurableHolds == Spec => []Durable
<1>1. ASSUME IInv PROVE Durable
  <2> SUFFICES ASSUME NEW c \in Client, NEW i \in Id, pc[c] = "reading",
                      op[c].kind = "get", due[i] # NONE
               PROVE  content[i] = due[i]
    BY DEF Durable
  <2>1. ~ChangeBrings BY DEF ChangeBrings, Alone
  <2>2. GetsFind BY <1>1, <2>1 DEF IInv, DueKept, Empty
  <2> QED BY <2>2 DEF GetsFind, Holds
<1> QED BY <1>1, Inductive, PTL

-----------------------------------------------------------------------------
(* The refinement. *)

(* While one client has the file to itself, the map is what it is writing, *)
(* or what the file holds.                                                 *)
LEMMA StoredAlone ==
  \A c \in Client : serial /\ Alone(c) =>
    Stored = IF pc[c] = "writing" THEN view[c] ELSE content
<1> SUFFICES ASSUME NEW c \in Client, serial, Alone(c)
             PROVE  Stored = IF pc[c] = "writing" THEN view[c] ELSE content
  OBVIOUS
<1>1. \A b \in Client : pc[b] = "writing" => b = c
  BY DEF Alone
<1> QED BY <1>1 DEF Stored

LEMMA StoredAloneNext ==
  \A c \in Client : serial' /\ Alone(c)' =>
    Stored' = IF pc'[c] = "writing" THEN view'[c] ELSE content'
<1> SUFFICES ASSUME NEW c \in Client, serial', Alone(c)'
             PROVE  Stored' = IF pc'[c] = "writing" THEN view'[c] ELSE content'
  OBVIOUS
<1>1. \A b \in Client : pc'[b] = "writing" => b = c
  BY DEF Alone
<1> QED BY <1>1 DEF Stored

LEMMA AbstractInit == Init => Abstract!Init
  BY DEF Init, Stored, Abstract!Init, Abstract!Empty, Empty

LEMMA AbstractStep == IInv /\ IInv' /\ Next => [Abstract!Next]_Stored
<1> SUFFICES ASSUME IInv, IInv', Next, NEW c \in Client, ClientStep(c)
             PROVE  Abstract!Next \/ Stored' = Stored
  BY DEF Next
<1>0. serial' = serial BY DEF Next
<1>1. CASE ~serial
  BY <1>0, <1>1 DEF Stored
<1>2. CASE serial
  <2> DEFINE Has == IF pc[c] = "writing" THEN view[c] ELSE content
  <2> USE DEF IInv, TypeOK, Undisturbed
  <2>1. Alone(c)
    BY <1>2 DEF ClientStep, Begin, OpenFile, WriteBraces, Read, Truncate, Write,
                Crash, Alone
  <2>2. Alone(c)'
    <3>1. \A b \in Client \ {c} : pc'[b] = pc[b]
      BY DEF ClientStep, Begin, OpenFile, WriteBraces, Read, Truncate, Write,
             Crash, ParseFails, Failed, Return
    <3> QED BY <2>1, <3>1 DEF Alone
  <2>3. Stored = Has
    BY <1>2, <2>1, StoredAlone
  <2>4. Stored' = Has'
    BY <1>0, <1>2, <2>2, StoredAloneNext
  <2> HIDE DEF Has
  <2>5. ASSUME NEW o \in Operations, Begin(c, o) PROVE Has' = Has
    BY <2>5 DEF Begin, Has
  <2>6. ASSUME OpenFile(c) PROVE Has' = Has
    BY <2>6 DEF OpenFile, ParseFails, Return, Has
  <2>7. ASSUME WriteBraces(c) PROVE Has' = Has
    <3>1. content' = content
      BY <1>2, <2>7 DEF WriteBraces, Braced, Tear
    <3>2. pc[c] # "writing" /\ pc'[c] # "writing"
      BY <2>7 DEF WriteBraces, ParseFails, Return
    <3> QED BY <3>1, <3>2 DEF Has
  <2>8. ASSUME Read(c) PROVE Has' = Has
    BY <2>8 DEF Read, ParseFails, Return, Has
  <2>12. ASSUME Has' = Empty, Crashes \/ Failures PROVE Abstract!Next
    BY <2>4, <2>12 DEF Abstract!Next, Abstract!Lose, Abstract!Empty, Empty
  <2>13. ASSUME Truncate(c), pc'[c] # "writing" PROVE Has' = Has
    BY <2>13 DEF Truncate, Failed, Return, Has
  <2>14. ASSUME Truncate(c), pc'[c] = "writing", form # "json" \/ view[c] # Applied(op[c], content)
         PROVE  Abstract!Next \/ Has' = Has
    <3>1. pc[c] = "committing" /\ view[c] = Empty /\ (Failures \/ content = Empty)
      BY <1>2, <2>14 DEF Truncate
    <3>2. Has' = Empty
      BY <2>14, <3>1 DEF Truncate, Failed, Return, Has
    <3>3. CASE Failures BY <2>12, <3>2, <3>3
    <3>4. CASE content = Empty BY <3>1, <3>2, <3>4 DEF Has
    <3> QED BY <3>1, <3>3, <3>4
  <2>9. ASSUME Truncate(c), pc'[c] = "writing", view[c] = Applied(op[c], content)
        PROVE  Abstract!Next
    <3>1. op[c] \in Operations /\ op[c].kind # "get"
      BY <2>9 DEF Truncate, Called
    <3>2. Stored' = Applied(op[c], Stored)
      BY <1>2, <2>3, <2>4, <2>9 DEF Truncate, Failed, Return, Has
    <3>3. Stored \in Pairings
      BY <2>3 DEF Has
    <3>4. CASE op[c].kind = "save"
      <4>1. Abstract!savePairing(op[c].id, op[c].data)
        BY <3>1, <3>2, <3>3, <3>4, AppliedCases DEF Abstract!savePairing
      <4> QED BY <3>1, <3>3, <3>4, <4>1, AppliedCases DEF Abstract!Next
    <3>5. CASE op[c].kind = "delete"
      <4>1. Abstract!deletePairing(op[c].id)
        BY <3>1, <3>2, <3>3, <3>5, AppliedCases DEF Abstract!deletePairing
      <4> QED BY <3>1, <3>3, <3>5, <4>1, AppliedCases DEF Abstract!Next
    <3>6. CASE op[c].kind = "clear"
      <4>1. Abstract!clearAllPairings
        BY <3>1, <3>2, <3>3, <3>6, AppliedCases
        DEF Abstract!clearAllPairings, Abstract!Empty, Empty
      <4> QED BY <4>1 DEF Abstract!Next
    <3> QED BY <3>1, <3>3, <3>4, <3>5, <3>6, AppliedCases
  <2>10. ASSUME Write(c) PROVE Abstract!Next \/ Has' = Has
    <3>1. pc[c] = "writing" /\ pc'[c] = "idle" /\ Has = view[c] /\ Has' = content'
      BY <2>10 DEF Write, Failed, Return, Has
    <3>2. form \in {"empty", "sealed"} /\ content = Empty
          /\ (form = "sealed" => view[c] = Empty)
      BY <1>2, <3>1
    <3>3. WrittenOver(view[c]) => content' = view[c]
      BY <3>2 DEF WrittenOver, Tear
    <3>4. WrittenOver(view[c]) \/ (Failures /\ content' = Empty)
      BY <2>10, <3>2 DEF Write, Tear
    <3> QED BY <2>12, <3>1, <3>3, <3>4
  <2>11. ASSUME Crash(c) PROVE Abstract!Next \/ Has' = Has
    <3>1. content' = content \/ content' = Empty
      BY <2>11 DEF Crash, Tear
    <3>2. CASE pc[c] = "writing"
      <4>1. Has' = Empty
        BY <1>2, <2>11, <3>2 DEF Crash, Tear, Return, Has
      <4> QED BY <2>11, <2>12, <4>1 DEF Crash
    <3>3. CASE pc[c] # "writing"
      <4>1. content' = content
        BY <1>2, <2>11, <3>3 DEF Crash, Tear
      <4> QED BY <2>11, <3>3, <4>1 DEF Crash, Return, Has
    <3> QED BY <3>2, <3>3
  <2> QED
    BY <2>3, <2>4, <2>5, <2>6, <2>7, <2>8, <2>9, <2>10, <2>11, <2>13, <2>14
    DEF ClientStep
<1> QED BY <1>1, <1>2

(* One operation at a time, the file is the map that PairingMap specifies: *)
(* a change takes effect at once, when the file is truncated for it, and a *)
(* client that dies or whose system calls fail loses everything or nothing. *)
THEOREM Refinement == Spec => ImplementsMap
<1>1. Init => Abstract!Init BY AbstractInit
<1>2. IInv /\ IInv' /\ [Next]_vars => [Abstract!Next]_Stored
  <2>1. UNCHANGED vars => Stored' = Stored
    BY DEF vars, Stored
  <2> QED BY <2>1, AbstractStep
<1> QED BY <1>1, <1>2, Inductive, PTL DEF Spec, ImplementsMap, Abstract!Spec

=============================================================================

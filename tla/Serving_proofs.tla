--------------------------- MODULE Serving_proofs ---------------------------
(***************************************************************************)
(* Proofs about RequestAdmission, for any number of connections, slots and *)
(* any size of body, about ServingChain, for any budgets and graces, and   *)
(* about AgentRun, for any inputs, retries, runs and deployments.          *)
(* Slots are counted with the lemmas Stays, Enters and Leaves: one request *)
(* at a time changes sides, and takes or returns the slot as it does.  The *)
(* clocks of the chain are compared: each is ahead of the one behind it.   *)
(* The agent's trace is compared with its plan, entry by entry.            *)
(***************************************************************************)
EXTENDS RequestAdmission, ServingChain, AgentRun, FiniteSetTheorems, SequenceTheorems,
        TLAPS

\* Only c's request changes.
Alone(c) == \A d \in Connections \ {c} : request'[d] = request[d]

\* The holders of slots are finitely many.
LEMMA HoldersAreFinite ==
  ASSUME NEW k
  PROVE  IsFiniteSet(Holders(k))
BY ConnectionsAssumption, FS_Subset DEF Holders

\* A request that does not cross a boundary leaves the slots as they are.
LEMMA Stays ==
  ASSUME SlotsAreConserved, NEW c \in Connections, Alone(c),
         Inside(c)' <=> Inside(c),
         Inside(c) => request'[c].kind = request[c].kind,
         free' = free
  PROVE  SlotsAreConserved'
<1>1. \A k \in Bounded : Holders(k)' = Holders(k)
  BY DEF Holders, Alone, Inside
<1> QED
  BY <1>1 DEF SlotsAreConserved

\* A request that enters takes the slot it found free.
LEMMA Enters ==
  ASSUME SlotsAreConserved, free \in [Bounded -> 0..Capacity],
         NEW k \in Bounded, NEW c \in Connections, Alone(c),
         ~Locked(k), ~Inside(c), Inside(c)', request'[c].kind = k,
         free' = [free EXCEPT ![k] = @ - 1]
  PROVE  SlotsAreConserved' /\ free' \in [Bounded -> 0..Capacity]
<1>1. Holders(k)' = Holders(k) \cup {c} /\ c \notin Holders(k)
  BY DEF Holders, Alone, Inside
<1>2. \A j \in Bounded \ {k} : Holders(j)' = Holders(j)
  BY DEF Holders, Alone, Inside
<1>3. Cardinality(Holders(k)') = Cardinality(Holders(k)) + 1
  BY <1>1, HoldersAreFinite, FS_AddElement
<1>4. \A j \in Bounded : Cardinality(Holders(j)) \in Nat
  BY HoldersAreFinite, FS_CardinalityType
<1>5. free' \in [Bounded -> 0..Capacity]
  BY CapacityAssumption DEF Locked
<1>6. \A j \in Bounded : free'[j] + Cardinality(Holders(j)') = Capacity
  BY <1>2, <1>3, <1>4, CapacityAssumption DEF SlotsAreConserved
<1> QED
  BY <1>5, <1>6 DEF SlotsAreConserved

\* A request that leaves returns the slot it held, which is not there already.
LEMMA Leaves ==
  ASSUME SlotsAreConserved, free \in [Bounded -> 0..Capacity],
         NEW k \in Bounded, NEW c \in Connections, Alone(c),
         Inside(c), ~Inside(c)', request[c].kind = k,
         free' = [free EXCEPT ![k] = @ + 1]
  PROVE  SlotsAreConserved' /\ free' \in [Bounded -> 0..Capacity]
<1>1. Holders(k)' = Holders(k) \ {c} /\ c \in Holders(k)
  BY DEF Holders, Alone, Inside
<1>2. \A j \in Bounded \ {k} : Holders(j)' = Holders(j)
  BY DEF Holders, Alone, Inside
<1>3. Cardinality(Holders(k)') = Cardinality(Holders(k)) - 1
  BY <1>1, HoldersAreFinite, FS_RemoveElement
<1>4. \A j \in Bounded : Cardinality(Holders(j)) \in Nat
  BY HoldersAreFinite, FS_CardinalityType
<1>5. Cardinality(Holders(k)) # 0
  BY <1>1, HoldersAreFinite, FS_EmptySet
<1>6. free[k] + 1 \in 0..Capacity
  BY <1>4, <1>5, CapacityAssumption DEF SlotsAreConserved
<1>7. free' \in [Bounded -> 0..Capacity]
  BY <1>6
<1>8. \A j \in Bounded : free'[j] + Cardinality(Holders(j)') = Capacity
  BY <1>2, <1>3, <1>4, CapacityAssumption DEF SlotsAreConserved
<1> QED
  BY <1>7, <1>8 DEF SlotsAreConserved

-----------------------------------------------------------------------------
\* What a request has and owes at each of its steps.
RequestInv(c) ==
    /\ request[c].step \in {"idle", "authenticating"}
          => request[c].charges = 0
    /\ request[c].step = "idle" => request[c].kind = "query"
    /\ request[c].step = "reading" => request[c].kind \in Bounded
    /\ request[c].step \in {"authenticating", "inspecting", "analysing"}
          => request[c].kind = "upload"
    /\ request[c].step = "rejected" => request[c].charges <= 1
    /\ request[c].kind = "upload" =>
          /\ Inside(c) => request[c].charges = 1
          /\ request[c].step = "handling" => request[c].memo
    /\ request[c].kind # "upload" =>
          /\ request[c].step \in {"reading", "handling"} => request[c].charges = 0
          /\ request[c].step = "working" => request[c].charges = 1
          /\ request[c].charges <= 1
    /\ request[c].memo => request[c].kind = "upload" /\ Inside(c)
    /\ request[c].bytes > 0 => Inside(c)
    /\ worker[c] = "none" <=> request[c].step \notin {"inspecting", "analysing"}
    /\ file[c] <=> request[c].step = "analysing"

IInv == TypeOK /\ SlotsAreConserved /\ \A c \in Connections : RequestInv(c)

\* The invariant of every request follows from that of the one that moved.
LEMMA Reassembled ==
  ASSUME IInv, NEW c \in Connections, Alone(c),
         request' \in [Connections -> Requests], RequestInv(c)',
         SlotsAreConserved', free' \in [Bounded -> 0..Capacity],
         worker' \in [Connections -> {"none", "inspect", "analyse"}],
         file' \in [Connections -> BOOLEAN],
         strays' \in 0..MaxStrays,
         \A d \in Connections \ {c} : worker'[d] = worker[d] /\ file'[d] = file[d]
  PROVE  IInv'
<1>1. \A d \in Connections \ {c} : RequestInv(d)'
  BY DEF IInv, Alone, RequestInv, Inside
<1> QED
  BY <1>1 DEF IInv, TypeOK

\* A request that ends leaves by the finally of its boundary, if it had entered.
LEMMA EndConserves ==
  ASSUME IInv, NEW c \in Connections, End(c)
  PROVE  SlotsAreConserved' /\ free' \in [Bounded -> 0..Capacity]
<1>1. Alone(c) /\ ~Inside(c)'
  BY DEF IInv, TypeOK, End, Alone, Idle, Inside, Bounded
<1>2. CASE Inside(c)
  BY <1>1, <1>2, Leaves DEF IInv, TypeOK, End, Inside
<1>3. CASE ~Inside(c)
  BY <1>1, <1>3, Stays DEF IInv, TypeOK, End
<1> QED
  BY <1>2, <1>3

\* Types, the count of slots and what each step of a request implies for its
\* body, child and file hold together, and every step of Next keeps them.
THEOREM Inductive == Spec => []IInv
<1>1. Init => IInv
  <2> SUFFICES ASSUME Init PROVE IInv
    OBVIOUS
  <2>1. TypeOK
    BY CapacityAssumption, LimitsAssumption
       DEF Init, TypeOK, Requests, Idle, Kinds, Envelopes, Steps
  <2>2. \A k \in Bounded : Holders(k) = {}
    BY DEF Init, Holders, Inside, Idle
  <2>3. SlotsAreConserved
    BY <2>2, FS_EmptySet, CapacityAssumption DEF Init, SlotsAreConserved
  <2>4. \A c \in Connections : RequestInv(c)
    BY DEF Init, RequestInv, Idle, Inside, Bounded
  <2> QED
    BY <2>1, <2>3, <2>4 DEF IInv
<1>2. IInv /\ [Next]_vars => IInv'
  <2> SUFFICES ASSUME IInv, [Next]_vars PROVE IInv'
    OBVIOUS
  <2>0. TypeOK /\ SlotsAreConserved /\ \A c \in Connections : RequestInv(c)
    BY DEF IInv
  <2>1. CASE UNCHANGED vars
    BY <2>1, <2>0 DEF IInv, TypeOK, SlotsAreConserved, Holders, Inside, RequestInv, vars
  <2>3. ASSUME NEW c \in Connections, QueryArrives(c) PROVE IInv'
    <3>0. RequestInv(c)
      BY <2>0
    <3>1. Alone(c) /\ request'[c] \in Requests /\ request' \in [Connections -> Requests]
      BY <2>3, <2>0, <3>0
         DEF QueryArrives, At, Goto, RequestInv, Alone, TypeOK, Requests, Kinds, Bounded,
          Steps
    <3>2. RequestInv(c)'
      BY <2>3, <2>0, <3>0
         DEF QueryArrives, At, Goto, RequestInv, Inside, TypeOK, Requests, Kinds, Bounded,
          Steps
    <3>3. SlotsAreConserved' /\ free' \in [Bounded -> 0..Capacity]
      <4>1. (Inside(c)' <=> Inside(c)) /\ (Inside(c) => request'[c].kind = request[c].kind)
        BY <2>3, <2>0, <3>0
           DEF QueryArrives, At, Goto, RequestInv, Inside, TypeOK, Requests, Kinds,
          Bounded, Steps
      <4>2. free' = free
        BY <2>3 DEF QueryArrives, At, Goto
      <4> QED
        BY <4>1, <4>2, <3>1, <2>0, Stays DEF TypeOK
    <3> QED
      BY <2>3, <2>0, <3>1, <3>2, <3>3, Reassembled DEF QueryArrives, At, Goto, TypeOK
  <2>4. ASSUME NEW c \in Connections, CommandRejected(c) PROVE IInv'
    <3>0. RequestInv(c)
      BY <2>0
    <3>1. Alone(c) /\ request'[c] \in Requests /\ request' \in [Connections -> Requests]
      BY <2>4, <2>0, <3>0
         DEF CommandRejected, At, Goto, RequestInv, Alone, TypeOK, Requests, Kinds,
          Bounded, Steps
    <3>2. RequestInv(c)'
      BY <2>4, <2>0, <3>0
         DEF CommandRejected, At, Goto, RequestInv, Inside, TypeOK, Requests, Kinds,
          Bounded, Steps
    <3>3. SlotsAreConserved' /\ free' \in [Bounded -> 0..Capacity]
      <4>1. (Inside(c)' <=> Inside(c)) /\ (Inside(c) => request'[c].kind = request[c].kind)
        BY <2>4, <2>0, <3>0
           DEF CommandRejected, At, Goto, RequestInv, Inside, TypeOK, Requests, Kinds,
          Bounded, Steps
      <4>2. free' = free
        BY <2>4 DEF CommandRejected, At, Goto
      <4> QED
        BY <4>1, <4>2, <3>1, <2>0, Stays DEF TypeOK
    <3> QED
      BY <2>4, <2>0, <3>1, <3>2, <3>3, Reassembled DEF CommandRejected, At, Goto, TypeOK
  <2>5. ASSUME NEW c \in Connections, CommandAdmitted(c) PROVE IInv'
    <3>0. RequestInv(c)
      BY <2>0
    <3>1. Alone(c) /\ request'[c] \in Requests /\ request' \in [Connections -> Requests]
      BY <2>5, <2>0, <3>0
         DEF CommandAdmitted, At, Goto, RequestInv, Alone, TypeOK, Requests, Kinds,
          Bounded, Steps
    <3>2. RequestInv(c)'
      BY <2>5, <2>0, <3>0
         DEF CommandAdmitted, At, Goto, RequestInv, Inside, TypeOK, Requests, Kinds,
          Bounded, Steps
    <3>3. SlotsAreConserved' /\ free' \in [Bounded -> 0..Capacity]
      <4>1. ~Inside(c) /\ Inside(c)' /\ request'[c].kind = "command" /\ "command" \in Bounded
        BY <2>5, <2>0, <3>0
           DEF CommandAdmitted, At, Goto, RequestInv, Inside, TypeOK, Requests, Kinds,
          Bounded, Steps
      <4>2. ~Locked("command") /\ free' = [free EXCEPT !["command"] = @ - 1]
        BY <2>5 DEF CommandAdmitted, At, Goto
      <4> QED
        BY <4>1, <4>2, <3>1, <2>0, Enters DEF TypeOK
    <3> QED
      BY <2>5, <2>0, <3>1, <3>2, <3>3, Reassembled DEF CommandAdmitted, At, Goto, TypeOK
  <2>6. ASSUME NEW c \in Connections, NEW e \in Envelopes, UploadArrives(c, e) PROVE IInv'
    <3>0. RequestInv(c)
      BY <2>0
    <3>1. Alone(c) /\ request'[c] \in Requests /\ request' \in [Connections -> Requests]
      BY <2>6, <2>0, <3>0
         DEF UploadArrives, At, Goto, RequestInv, Alone, TypeOK, Requests, Kinds, Bounded,
          Steps
    <3>2. RequestInv(c)'
      BY <2>6, <2>0, <3>0
         DEF UploadArrives, At, Goto, RequestInv, Inside, TypeOK, Requests, Kinds, Bounded,
          Steps
    <3>3. SlotsAreConserved' /\ free' \in [Bounded -> 0..Capacity]
      <4>1. (Inside(c)' <=> Inside(c)) /\ (Inside(c) => request'[c].kind = request[c].kind)
        BY <2>6, <2>0, <3>0
           DEF UploadArrives, At, Goto, RequestInv, Inside, TypeOK, Requests, Kinds,
          Bounded, Steps
      <4>2. free' = free
        BY <2>6 DEF UploadArrives, At, Goto
      <4> QED
        BY <4>1, <4>2, <3>1, <2>0, Stays DEF TypeOK
    <3> QED
      BY <2>6, <2>0, <3>1, <3>2, <3>3, Reassembled DEF UploadArrives, At, Goto, TypeOK
  <2>7. ASSUME NEW c \in Connections, UploadTurnedAway(c) PROVE IInv'
    <3>0. RequestInv(c)
      BY <2>0
    <3>1. Alone(c) /\ request'[c] \in Requests /\ request' \in [Connections -> Requests]
      BY <2>7, <2>0, <3>0
         DEF UploadTurnedAway, At, RequestInv, Alone, TypeOK, Requests, Kinds, Bounded,
          Steps
    <3>2. RequestInv(c)'
      BY <2>7, <2>0, <3>0
         DEF UploadTurnedAway, At, Goto, RequestInv, Inside, TypeOK, Requests, Kinds,
          Bounded, Steps
    <3>3. SlotsAreConserved' /\ free' \in [Bounded -> 0..Capacity]
      <4>1. (Inside(c)' <=> Inside(c)) /\ (Inside(c) => request'[c].kind = request[c].kind)
        BY <2>7, <2>0, <3>0
           DEF UploadTurnedAway, At, Goto, RequestInv, Inside, TypeOK, Requests, Kinds,
          Bounded, Steps
      <4>2. free' = free
        BY <2>7 DEF UploadTurnedAway, At, Goto
      <4> QED
        BY <4>1, <4>2, <3>1, <2>0, Stays DEF TypeOK
    <3> QED
      BY <2>7, <2>0, <3>1, <3>2, <3>3, Reassembled DEF UploadTurnedAway, At, Goto, TypeOK
  <2>8. ASSUME NEW c \in Connections, UploadAdmitted(c) PROVE IInv'
    <3>0. RequestInv(c)
      BY <2>0
    <3>1. Alone(c) /\ request'[c] \in Requests /\ request' \in [Connections -> Requests]
      BY <2>8, <2>0, <3>0
         DEF UploadAdmitted, At, Goto, RequestInv, Alone, TypeOK, Requests, Kinds, Bounded,
          Steps
    <3>2. RequestInv(c)'
      BY <2>8, <2>0, <3>0
         DEF UploadAdmitted, At, Goto, RequestInv, Inside, TypeOK, Requests, Kinds,
          Bounded, Steps
    <3>3. SlotsAreConserved' /\ free' \in [Bounded -> 0..Capacity]
      <4>1. ~Inside(c) /\ Inside(c)' /\ request'[c].kind = "upload" /\ "upload" \in Bounded
        BY <2>8, <2>0, <3>0
           DEF UploadAdmitted, At, Goto, RequestInv, Inside, TypeOK, Requests, Kinds,
          Bounded, Steps
      <4>2. ~Locked("upload") /\ free' = [free EXCEPT !["upload"] = @ - 1]
        BY <2>8 DEF UploadAdmitted, At, Goto
      <4> QED
        BY <4>1, <4>2, <3>1, <2>0, Enters DEF TypeOK
    <3> QED
      BY <2>8, <2>0, <3>1, <3>2, <3>3, Reassembled DEF UploadAdmitted, At, Goto, TypeOK
  <2>9. ASSUME NEW c \in Connections, Receive(c) PROVE IInv'
    <3>0. RequestInv(c)
      BY <2>0
    <3>1. Alone(c) /\ request'[c] \in Requests /\ request' \in [Connections -> Requests]
      <4>1. PICK n \in Chunks :
              request' = IF request[c].bytes + n > Limit
                         THEN [request EXCEPT ![c].step = "replying"]
                         ELSE [request EXCEPT ![c].bytes = @ + n]
        BY <2>9 DEF Receive
      <4>2. CASE request[c].bytes + n > Limit
        BY <4>1, <4>2, <2>0, SMTT(30) DEF Alone, TypeOK, Requests, Kinds, Bounded, Steps
      <4>3. CASE ~(request[c].bytes + n > Limit)
        <5>1. request[c].bytes + n \in 0..Limit
          BY <4>3, <2>0, LimitsAssumption DEF Chunks, TypeOK, Requests
        <5> QED
          BY <4>1, <4>3, <5>1, <2>0, SMTT(30) DEF Alone, TypeOK, Requests, Kinds, Bounded,
          Steps
      <4> QED
        BY <4>2, <4>3
    <3>2. RequestInv(c)'
      BY <2>9, <2>0, <3>0
         DEF Receive, At, Goto, RequestInv, Inside, TypeOK, Requests, Kinds, Bounded, Steps
    <3>3. SlotsAreConserved' /\ free' \in [Bounded -> 0..Capacity]
      <4>1. (Inside(c)' <=> Inside(c)) /\ (Inside(c) => request'[c].kind = request[c].kind)
        BY <2>9, <2>0, <3>0
           DEF Receive, At, Goto, RequestInv, Inside, TypeOK, Requests, Kinds, Bounded,
          Steps
      <4>2. free' = free
        BY <2>9 DEF Receive, At, Goto
      <4> QED
        BY <4>1, <4>2, <3>1, <2>0, Stays DEF TypeOK
    <3> QED
      BY <2>9, <2>0, <3>1, <3>2, <3>3, Reassembled DEF Receive, At, Goto, TypeOK
  <2>10. ASSUME NEW c \in Connections, ReceiveLast(c) PROVE IInv'
    <3>0. RequestInv(c)
      BY <2>0
    <3>1. Alone(c) /\ request'[c] \in Requests /\ request' \in [Connections -> Requests]
      BY <2>10, <2>0, <3>0
         DEF ReceiveLast, At, Goto, RequestInv, Alone, TypeOK, Requests, Kinds, Bounded,
          Steps
    <3>2. RequestInv(c)'
      BY <2>10, <2>0, <3>0
         DEF ReceiveLast, At, Goto, RequestInv, Inside, TypeOK, Requests, Kinds, Bounded,
          Steps
    <3>3. SlotsAreConserved' /\ free' \in [Bounded -> 0..Capacity]
      <4>1. (Inside(c)' <=> Inside(c)) /\ (Inside(c) => request'[c].kind = request[c].kind)
        BY <2>10, <2>0, <3>0
           DEF ReceiveLast, At, Goto, RequestInv, Inside, TypeOK, Requests, Kinds, Bounded,
          Steps
      <4>2. free' = free
        BY <2>10 DEF ReceiveLast, At, Goto
      <4> QED
        BY <4>1, <4>2, <3>1, <2>0, Stays DEF TypeOK
    <3> QED
      BY <2>10, <2>0, <3>1, <3>2, <3>3, Reassembled DEF ReceiveLast, At, Goto, TypeOK
  <2>11. ASSUME NEW c \in Connections, ReadTimesOut(c) PROVE IInv'
    <3>0. RequestInv(c)
      BY <2>0
    <3>1. Alone(c) /\ request'[c] \in Requests /\ request' \in [Connections -> Requests]
      BY <2>11, <2>0, <3>0
         DEF ReadTimesOut, At, Goto, RequestInv, Alone, TypeOK, Requests, Kinds, Bounded,
          Steps
    <3>2. RequestInv(c)'
      BY <2>11, <2>0, <3>0
         DEF ReadTimesOut, At, Goto, RequestInv, Inside, TypeOK, Requests, Kinds, Bounded,
          Steps
    <3>3. SlotsAreConserved' /\ free' \in [Bounded -> 0..Capacity]
      <4>1. (Inside(c)' <=> Inside(c)) /\ (Inside(c) => request'[c].kind = request[c].kind)
        BY <2>11, <2>0, <3>0
           DEF ReadTimesOut, At, Goto, RequestInv, Inside, TypeOK, Requests, Kinds,
          Bounded, Steps
      <4>2. free' = free
        BY <2>11 DEF ReadTimesOut, At, Goto
      <4> QED
        BY <4>1, <4>2, <3>1, <2>0, Stays DEF TypeOK
    <3> QED
      BY <2>11, <2>0, <3>1, <3>2, <3>3, Reassembled DEF ReadTimesOut, At, Goto, TypeOK
  <2>12. ASSUME NEW c \in Connections, Unparsable(c) PROVE IInv'
    <3>0. RequestInv(c)
      BY <2>0
    <3>1. Alone(c) /\ request'[c] \in Requests /\ request' \in [Connections -> Requests]
      BY <2>12, <2>0, <3>0
         DEF Unparsable, At, Goto, RequestInv, Alone, TypeOK, Requests, Kinds, Bounded,
          Steps
    <3>2. RequestInv(c)'
      BY <2>12, <2>0, <3>0
         DEF Unparsable, At, Goto, RequestInv, Inside, TypeOK, Requests, Kinds, Bounded,
          Steps
    <3>3. SlotsAreConserved' /\ free' \in [Bounded -> 0..Capacity]
      <4>1. (Inside(c)' <=> Inside(c)) /\ (Inside(c) => request'[c].kind = request[c].kind)
        BY <2>12, <2>0, <3>0
           DEF Unparsable, At, Goto, RequestInv, Inside, TypeOK, Requests, Kinds, Bounded,
          Steps
      <4>2. free' = free
        BY <2>12 DEF Unparsable, At, Goto
      <4> QED
        BY <4>1, <4>2, <3>1, <2>0, Stays DEF TypeOK
    <3> QED
      BY <2>12, <2>0, <3>1, <3>2, <3>3, Reassembled DEF Unparsable, At, Goto, TypeOK
  <2>13. ASSUME NEW c \in Connections, Identify(c) PROVE IInv'
    <3>0. RequestInv(c)
      BY <2>0
    <3>1. Alone(c) /\ request'[c] \in Requests /\ request' \in [Connections -> Requests]
      <4>1. CASE request[c].memo
        BY <2>13, <4>1, <2>0 DEF Identify, Goto, Alone, TypeOK, Requests, Kinds, Bounded,
          Steps
      <4>2. CASE ~request[c].memo
        <5>1. request[c].charges = 0
          BY <2>13, <4>2, <3>0 DEF Identify, At, RequestInv
        <5> QED
          BY <2>13, <4>2, <5>1, <2>0 DEF Identify, Alone, TypeOK, Requests, Kinds, Bounded,
          Steps
      <4> QED
        BY <4>1, <4>2
    <3>2. RequestInv(c)'
      BY <2>13, <2>0, <3>0
         DEF Identify, At, Goto, RequestInv, Inside, TypeOK, Requests, Kinds, Bounded, Steps
    <3>3. SlotsAreConserved' /\ free' \in [Bounded -> 0..Capacity]
      <4>1. (Inside(c)' <=> Inside(c)) /\ (Inside(c) => request'[c].kind = request[c].kind)
        BY <2>13, <2>0, <3>0
           DEF Identify, At, Goto, RequestInv, Inside, TypeOK, Requests, Kinds, Bounded,
          Steps
      <4>2. free' = free
        BY <2>13 DEF Identify, At, Goto
      <4> QED
        BY <4>1, <4>2, <3>1, <2>0, Stays DEF TypeOK
    <3> QED
      BY <2>13, <2>0, <3>1, <3>2, <3>3, Reassembled DEF Identify, At, Goto, TypeOK
  <2>14. ASSUME NEW c \in Connections, HandlerEnds(c) PROVE IInv'
    <3>0. RequestInv(c)
      BY <2>0
    <3>1. Alone(c) /\ request'[c] \in Requests /\ request' \in [Connections -> Requests]
      BY <2>14, <2>0, <3>0
         DEF HandlerEnds, At, Goto, RequestInv, Alone, TypeOK, Requests, Kinds, Bounded,
          Steps
    <3>2. RequestInv(c)'
      BY <2>14, <2>0, <3>0
         DEF HandlerEnds, At, Goto, RequestInv, Inside, TypeOK, Requests, Kinds, Bounded,
          Steps
    <3>3. SlotsAreConserved' /\ free' \in [Bounded -> 0..Capacity]
      <4>1. (Inside(c)' <=> Inside(c)) /\ (Inside(c) => request'[c].kind = request[c].kind)
        BY <2>14, <2>0, <3>0
           DEF HandlerEnds, At, Goto, RequestInv, Inside, TypeOK, Requests, Kinds, Bounded,
          Steps
      <4>2. free' = free
        BY <2>14 DEF HandlerEnds, At, Goto
      <4> QED
        BY <4>1, <4>2, <3>1, <2>0, Stays DEF TypeOK
    <3> QED
      BY <2>14, <2>0, <3>1, <3>2, <3>3, Reassembled DEF HandlerEnds, At, Goto, TypeOK
  <2>15. ASSUME NEW c \in Connections, StartInspection(c) PROVE IInv'
    <3>0. RequestInv(c)
      BY <2>0
    <3>1. Alone(c) /\ request'[c] \in Requests /\ request' \in [Connections -> Requests]
      BY <2>15, <2>0, <3>0
         DEF StartInspection, At, Goto, RequestInv, Alone, TypeOK, Requests, Kinds,
          Bounded, Steps
    <3>2. RequestInv(c)'
      BY <2>15, <2>0, <3>0
         DEF StartInspection, At, Goto, RequestInv, Inside, TypeOK, Requests, Kinds,
          Bounded, Steps
    <3>3. SlotsAreConserved' /\ free' \in [Bounded -> 0..Capacity]
      <4>1. (Inside(c)' <=> Inside(c)) /\ (Inside(c) => request'[c].kind = request[c].kind)
        BY <2>15, <2>0, <3>0
           DEF StartInspection, At, Goto, RequestInv, Inside, TypeOK, Requests, Kinds,
          Bounded, Steps
      <4>2. free' = free
        BY <2>15 DEF StartInspection, At, Goto
      <4> QED
        BY <4>1, <4>2, <3>1, <2>0, Stays DEF TypeOK
    <3> QED
      BY <2>15, <2>0, <3>1, <3>2, <3>3, Reassembled DEF StartInspection, At, Goto, TypeOK
  <2>16. ASSUME NEW c \in Connections, InspectionFails(c) PROVE IInv'
    <3>0. RequestInv(c)
      BY <2>0
    <3>1. Alone(c) /\ request'[c] \in Requests /\ request' \in [Connections -> Requests]
      BY <2>16, <2>0, <3>0
         DEF InspectionFails, At, Goto, RequestInv, Alone, TypeOK, Requests, Kinds,
          Bounded, Steps
    <3>2. RequestInv(c)'
      BY <2>16, <2>0, <3>0
         DEF InspectionFails, At, Goto, RequestInv, Inside, TypeOK, Requests, Kinds,
          Bounded, Steps
    <3>3. SlotsAreConserved' /\ free' \in [Bounded -> 0..Capacity]
      <4>1. (Inside(c)' <=> Inside(c)) /\ (Inside(c) => request'[c].kind = request[c].kind)
        BY <2>16, <2>0, <3>0
           DEF InspectionFails, At, Goto, RequestInv, Inside, TypeOK, Requests, Kinds,
          Bounded, Steps
      <4>2. free' = free
        BY <2>16 DEF InspectionFails, At, Goto
      <4> QED
        BY <4>1, <4>2, <3>1, <2>0, Stays DEF TypeOK
    <3> QED
      BY <2>16, <2>0, <3>1, <3>2, <3>3, Reassembled DEF InspectionFails, At, Goto, TypeOK
  <2>17. ASSUME NEW c \in Connections, WriteFails(c) PROVE IInv'
    <3>0. RequestInv(c)
      BY <2>0
    <3>1. Alone(c) /\ request'[c] \in Requests /\ request' \in [Connections -> Requests]
      BY <2>17, <2>0, <3>0
         DEF WriteFails, At, Goto, RequestInv, Alone, TypeOK, Requests, Kinds, Bounded,
          Steps
    <3>2. RequestInv(c)'
      BY <2>17, <2>0, <3>0
         DEF WriteFails, At, Goto, RequestInv, Inside, TypeOK, Requests, Kinds, Bounded,
          Steps
    <3>3. SlotsAreConserved' /\ free' \in [Bounded -> 0..Capacity]
      <4>1. (Inside(c)' <=> Inside(c)) /\ (Inside(c) => request'[c].kind = request[c].kind)
        BY <2>17, <2>0, <3>0
           DEF WriteFails, At, Goto, RequestInv, Inside, TypeOK, Requests, Kinds, Bounded,
          Steps
      <4>2. free' = free
        BY <2>17 DEF WriteFails, At, Goto
      <4> QED
        BY <4>1, <4>2, <3>1, <2>0, Stays DEF TypeOK
    <3> QED
      BY <2>17, <2>0, <3>1, <3>2, <3>3, Reassembled, LimitsAssumption
         DEF WriteFails, At, Goto, TypeOK
  <2>18. ASSUME NEW c \in Connections, StartAnalysis(c) PROVE IInv'
    <3>0. RequestInv(c)
      BY <2>0
    <3>1. Alone(c) /\ request'[c] \in Requests /\ request' \in [Connections -> Requests]
      BY <2>18, <2>0, <3>0
         DEF StartAnalysis, At, Goto, RequestInv, Alone, TypeOK, Requests, Kinds, Bounded,
          Steps
    <3>2. RequestInv(c)'
      BY <2>18, <2>0, <3>0
         DEF StartAnalysis, At, Goto, RequestInv, Inside, TypeOK, Requests, Kinds, Bounded,
          Steps
    <3>3. SlotsAreConserved' /\ free' \in [Bounded -> 0..Capacity]
      <4>1. (Inside(c)' <=> Inside(c)) /\ (Inside(c) => request'[c].kind = request[c].kind)
        BY <2>18, <2>0, <3>0
           DEF StartAnalysis, At, Goto, RequestInv, Inside, TypeOK, Requests, Kinds,
          Bounded, Steps
      <4>2. free' = free
        BY <2>18 DEF StartAnalysis, At, Goto
      <4> QED
        BY <4>1, <4>2, <3>1, <2>0, Stays DEF TypeOK
    <3> QED
      BY <2>18, <2>0, <3>1, <3>2, <3>3, Reassembled DEF StartAnalysis, At, Goto, TypeOK
  <2>19. ASSUME NEW c \in Connections, AnalysisEnds(c) PROVE IInv'
    <3>0. RequestInv(c)
      BY <2>0
    <3>1. Alone(c) /\ request'[c] \in Requests /\ request' \in [Connections -> Requests]
      BY <2>19, <2>0, <3>0
         DEF AnalysisEnds, At, Goto, RequestInv, Alone, TypeOK, Requests, Kinds, Bounded,
          Steps
    <3>2. RequestInv(c)'
      BY <2>19, <2>0, <3>0
         DEF AnalysisEnds, At, Goto, RequestInv, Inside, TypeOK, Requests, Kinds, Bounded,
          Steps
    <3>3. SlotsAreConserved' /\ free' \in [Bounded -> 0..Capacity]
      <4>1. (Inside(c)' <=> Inside(c)) /\ (Inside(c) => request'[c].kind = request[c].kind)
        BY <2>19, <2>0, <3>0
           DEF AnalysisEnds, At, Goto, RequestInv, Inside, TypeOK, Requests, Kinds,
          Bounded, Steps
      <4>2. free' = free
        BY <2>19 DEF AnalysisEnds, At, Goto
      <4> QED
        BY <4>1, <4>2, <3>1, <2>0, Stays DEF TypeOK
    <3> QED
      BY <2>19, <2>0, <3>1, <3>2, <3>3, Reassembled DEF AnalysisEnds, At, Goto, TypeOK
  <2>20. ASSUME NEW c \in Connections, Disconnect(c) PROVE IInv'
    <3>0. RequestInv(c)
      BY <2>0
    <3>1. Alone(c) /\ request'[c] \in Requests /\ request' \in [Connections -> Requests]
      BY <2>20, <2>0, LimitsAssumption
         DEF Disconnect, End, Idle, Alone, Envelopes, TypeOK, Requests, Kinds, Bounded,
          Steps
    <3>2. RequestInv(c)'
      BY <2>20, <2>0, <3>0
         DEF Disconnect, End, Idle, At, RequestInv, Inside, TypeOK, Requests, Kinds,
          Bounded, Steps
    <3>3. SlotsAreConserved' /\ free' \in [Bounded -> 0..Capacity]
      BY <2>20, <2>0, <3>1, EndConserves DEF Disconnect, End, Idle, At
    <3> QED
      BY <2>20, <2>0, <3>1, <3>2, <3>3, Reassembled DEF Disconnect, End, Idle, At, TypeOK
  <2>21. ASSUME NEW c \in Connections, Reply(c) PROVE IInv'
    <3>0. RequestInv(c)
      BY <2>0
    <3>1. Alone(c) /\ request'[c] \in Requests /\ request' \in [Connections -> Requests]
      BY <2>21, <2>0, LimitsAssumption
         DEF Reply, End, Idle, Alone, Envelopes, TypeOK, Requests, Kinds, Bounded, Steps
    <3>2. RequestInv(c)'
      BY <2>21, <2>0, <3>0
         DEF Reply, End, Idle, At, RequestInv, Inside, TypeOK, Requests, Kinds, Bounded,
          Steps
    <3>3. SlotsAreConserved' /\ free' \in [Bounded -> 0..Capacity]
      BY <2>21, <2>0, <3>1, EndConserves DEF Reply, End, Idle, At
    <3> QED
      BY <2>21, <2>0, <3>1, <3>2, <3>3, Reassembled DEF Reply, End, Idle, At, TypeOK
  <2>22. ASSUME NEW c \in Connections, Cancel(c) PROVE IInv'
    <3>0. RequestInv(c)
      BY <2>0
    <3>1. Alone(c) /\ request'[c] \in Requests /\ request' \in [Connections -> Requests]
      BY <2>22, <2>0, LimitsAssumption
         DEF Cancel, End, Idle, Alone, Envelopes, TypeOK, Requests, Kinds, Bounded, Steps
    <3>2. RequestInv(c)'
      BY <2>22, <2>0, <3>0
         DEF Cancel, End, Idle, At, RequestInv, Inside, TypeOK, Requests, Kinds, Bounded,
          Steps
    <3>3. SlotsAreConserved' /\ free' \in [Bounded -> 0..Capacity]
      BY <2>22, <2>0, <3>1, EndConserves DEF Cancel, End, Idle, At
    <3> QED
      BY <2>22, <2>0, <3>1, <3>2, <3>3, Reassembled DEF Cancel, End, Idle, At, TypeOK
  <2>23. ASSUME NEW c \in Connections, Unauthenticated(c) PROVE IInv'
    <3>0. RequestInv(c)
      BY <2>0
    <3>1. Alone(c) /\ request'[c] \in Requests /\ request' \in [Connections -> Requests]
      BY <2>23, <2>0, <3>0
         DEF Unauthenticated, At, Goto, RequestInv, Alone, TypeOK, Requests, Kinds,
          Bounded, Steps
    <3>2. RequestInv(c)'
      BY <2>23, <2>0, <3>0
         DEF Unauthenticated, At, Goto, RequestInv, Inside, TypeOK, Requests, Kinds,
          Bounded, Steps
    <3>3. SlotsAreConserved' /\ free' \in [Bounded -> 0..Capacity]
      <4>1. (Inside(c)' <=> Inside(c)) /\ (Inside(c) => request'[c].kind = request[c].kind)
        BY <2>23, <2>0, <3>0
           DEF Unauthenticated, At, Goto, RequestInv, Inside, TypeOK, Requests, Kinds,
          Bounded, Steps
      <4>2. free' = free
        BY <2>23 DEF Unauthenticated, At, Goto
      <4> QED
        BY <4>1, <4>2, <3>1, <2>0, Stays DEF TypeOK
    <3> QED
      BY <2>23, <2>0, <3>1, <3>2, <3>3, Reassembled DEF Unauthenticated, At, Goto, TypeOK
  <2>24. ASSUME NEW c \in Connections, NotIdentified(c) PROVE IInv'
    <3>0. RequestInv(c)
      BY <2>0
    <3>1. Alone(c) /\ request'[c] \in Requests /\ request' \in [Connections -> Requests]
      BY <2>24, <2>0, <3>0
         DEF NotIdentified, At, Goto, RequestInv, Alone, TypeOK, Requests, Kinds, Bounded,
          Steps
    <3>2. RequestInv(c)'
      BY <2>24, <2>0, <3>0
         DEF NotIdentified, At, Goto, RequestInv, Inside, TypeOK, Requests, Kinds, Bounded,
          Steps
    <3>3. SlotsAreConserved' /\ free' \in [Bounded -> 0..Capacity]
      <4>1. (Inside(c)' <=> Inside(c)) /\ (Inside(c) => request'[c].kind = request[c].kind)
        BY <2>24, <2>0, <3>0
           DEF NotIdentified, At, Goto, RequestInv, Inside, TypeOK, Requests, Kinds,
          Bounded, Steps
      <4>2. free' = free
        BY <2>24 DEF NotIdentified, At, Goto
      <4> QED
        BY <4>1, <4>2, <3>1, <2>0, Stays DEF TypeOK
    <3> QED
      BY <2>24, <2>0, <3>1, <3>2, <3>3, Reassembled DEF NotIdentified, At, Goto, TypeOK
  <2> QED
    BY <2>1, <2>3, <2>4, <2>5, <2>6, <2>7, <2>8, <2>9, <2>10, <2>11, <2>12, <2>13, <2>14,
       <2>15, <2>16, <2>17, <2>18, <2>19, <2>20, <2>21, <2>22, <2>23, <2>24
       DEF Next, Progress
<1> QED
  BY <1>1, <1>2, PTL DEF Spec

\* Every variable keeps its type: no body over the limit, no slot too many.
THEOREM Typing == Spec => []TypeOK
BY Inductive, PTL DEF IInv

\* No exit of a request loses a slot or returns it twice.
THEOREM SlotsAreAlwaysConserved == Spec => []SlotsAreConserved
BY Inductive, PTL DEF IInv

\* Bodies, children and files are only ever held inside a slot.
THEOREM CostsStayInside == Spec => []CostsAreHeldInside
<1>1. IInv => CostsAreHeldInside
  BY DEF IInv, CostsAreHeldInside, RequestInv, Inside, Bounded
<1> QED
  BY <1>1, Inductive, PTL

\* Every upload is charged before it is read, every request at most once.
THEOREM ChargedFirst == Spec => []ChargedOnceAndFirst
<1>1. IInv => ChargedOnceAndFirst
  <2> SUFFICES ASSUME IInv, NEW c \in Connections
               PROVE  /\ request[c].charges <= 1
                      /\ request[c].step \in {"working", "inspecting", "analysing"}
                            => request[c].charges = 1
                      /\ (request[c].kind = "upload" /\ Inside(c))
                            => request[c].charges = 1
    BY DEF ChargedOnceAndFirst
  <2>1. RequestInv(c) /\ request[c] \in Requests
    BY DEF IInv, TypeOK
  <2>2. CASE request[c].kind = "upload"
    BY <2>1, <2>2 DEF RequestInv, Inside, Requests, Bounded, Steps
  <2>3. CASE request[c].kind # "upload"
    BY <2>1, <2>3 DEF RequestInv, Inside, Requests, Bounded, Steps
  <2> QED
    BY <2>2, <2>3
<1> QED
  BY <1>1, Inductive, PTL

-----------------------------------------------------------------------------
(* The clocks of ServingChain *)

Pages == [at : {"idle", "waiting", "done"}, left : Nat,
          shown : {"none", "live", "failure", "unavailable"}]
Proxies == [at : {"idle", "coming", "waiting", "replying", "over"}, left : Nat,
            reply : Nat, by : {"nobody", "proxy", "backend"}]
Backends == [at : Busy \cup {"idle", "storing", "replying", "over"}, left : Nat, reply : Nat]

ChainTypes ==
    /\ browser \in Pages /\ proxy \in Proxies /\ backend \in Backends
    /\ reachable \in BOOLEAN /\ lost \in BOOLEAN /\ stored \in 0 .. 3

\* The browser's clock is ahead of the proxy's by what the graces differ in, less
\* the time the messages have been under way.
BrowserOutlasts ==
    /\ browser.at = "idle" => proxy.at = "idle"
    /\ browser.at = "waiting" =>
        \/ /\ proxy.at = "coming"
           /\ browser.left + Latency >= Budget + BrowserGrace + proxy.left
        \/ /\ proxy.at = "waiting"
           /\ browser.left + Latency + ProxyGrace >= BrowserGrace + proxy.left
        \/ /\ proxy.at = "replying"
           /\ browser.left + 2 * Latency + ProxyGrace >= BrowserGrace + proxy.left

\* What the back end has answered, if anything; a 502 is never its own.
BackendAnswers ==
    /\ backend.reply # 502
    /\ backend.at \in Busy \cup {"idle", "storing"} => backend.reply = NoReply
    /\ backend.at = "replying" => backend.reply # NoReply
    /\ proxy.at \in {"idle", "coming"} =>
          /\ backend.reply = NoReply
          /\ backend.at = "idle" \/ (backend.at = "over" /\ ~reachable)

\* Nothing is on record before the analysis is done; from then on the answer says
\* how far the storing came: all of it (200), not all of it (422), or it says nothing.
StoredAnswers ==
    /\ backend.at \in Busy \cup {"idle"} => stored = 0
    /\ proxy.at \in {"idle", "coming"} => stored = 0
    /\ stored > 0 => backend.reply \in {NoReply, 200, 422, 500, 503}
    /\ backend.reply = 200 => stored = 3
    /\ backend.reply = 422 => stored < 3

\* The proxy's answer is the back end's, or its own for a reason.
ProxyAnswers ==
    proxy.at \in {"replying", "over"} =>
        IF proxy.by = "proxy"
        THEN \/ proxy.reply = 504
             \/ proxy.reply \in {502, 503} /\ ~reachable
             \/ proxy.reply = 413 /\ stored = 0 /\ backend.at \in {"idle", "over"}
        ELSE proxy.reply = backend.reply /\ proxy.reply # NoReply /\ backend.at = "over"

\* What the page shows, it was told, or its own connection broke.
PageWasTold ==
    /\ browser.shown = "live" => proxy.at = "over" /\ proxy.reply = 200
    /\ browser.shown = "failure" => proxy.at = "over" /\ proxy.reply \notin {502, 503}
    /\ browser.shown = "unavailable" =>
          lost \/ (proxy.at = "over" /\ proxy.reply \in {502, 503})
    /\ browser.at # "done" => browser.shown = "none"

ChainInv ==
    /\ ChainTypes /\ BrowserOutlasts
    /\ BackendAnswers /\ StoredAnswers /\ ProxyAnswers /\ PageWasTold

USE ChainAssumption DEF Busy, NoReply, Pages, Proxies, Backends

LEMMA ChainInvInit == ChainInit => ChainInv
<1> SUFFICES ASSUME ChainInit PROVE ChainInv
  OBVIOUS
<1>1. ChainTypes
  <2>1. browser \in Pages
    BY DEF ChainInit
  <2>2. proxy \in Proxies
    BY DEF ChainInit
  <2>3. backend \in Backends
    BY DEF ChainInit
  <2>4. stored \in 0 .. 3
    BY DEF ChainInit
  <2> QED BY <2>1, <2>2, <2>3, <2>4 DEF ChainInit, ChainTypes
<1>2. BrowserOutlasts
  BY DEF ChainInit, BrowserOutlasts
<1>3. BackendAnswers
  BY DEF ChainInit, BackendAnswers
<1>4. ProxyAnswers
  BY DEF ChainInit, ProxyAnswers
<1>5. PageWasTold
  BY DEF ChainInit, PageWasTold
<1>6. StoredAnswers
  BY DEF ChainInit, StoredAnswers
<1> QED BY <1>1, <1>2, <1>3, <1>4, <1>5, <1>6 DEF ChainInv

USE DEF BackendReplies, Show

LEMMA ChainTypesStep == ChainTypes /\ [ChainNext]_chainVars => ChainTypes'
<1> SUFFICES ASSUME ChainTypes, [ChainNext]_chainVars PROVE ChainTypes'
  OBVIOUS
<1> USE DEF ChainTypes
<1>0. Budget + BrowserGrace \in Nat /\ Budget + ProxyGrace \in Nat
  OBVIOUS
<1>1. CASE AnalyzeDocument
  <2>1. browser' \in Pages
    BY <1>0, <1>1 DEF AnalyzeDocument
  <2>2. proxy' \in Proxies
    BY <1>1 DEF AnalyzeDocument
  <2> QED BY <1>1, <2>1, <2>2 DEF AnalyzeDocument
<1>2. CASE ProxyRefuses
  <2>1. proxy' \in Proxies
    BY <1>0, <1>2 DEF ProxyRefuses, ProxyReplies
  <2> QED BY <1>2, <2>1 DEF ProxyRefuses
<1>3. CASE ProxyForwards
  <2>1. proxy' \in Proxies
    BY <1>0, <1>3 DEF ProxyForwards
  <2>2. backend' \in Backends
    BY <1>3 DEF ProxyForwards
  <2> QED BY <1>3, <2>1, <2>2 DEF ProxyForwards
<1>4. CASE ProxyCutsBody
  <2>1. proxy' \in Proxies
    BY <1>0, <1>4 DEF ProxyCutsBody, ProxyReplies
  <2>2. backend' \in Backends
    BY <1>0, <1>4 DEF ProxyCutsBody, ProxyReplies
  <2> QED BY <1>4, <2>1, <2>2 DEF ProxyCutsBody
<1>5. CASE BackendRefuses
  BY <1>5 DEF BackendRefuses
<1>6. CASE Inspect
  BY <1>6 DEF Inspect
<1>7. CASE Analyse
  BY <1>7 DEF Analyse
<1>8. CASE WorkerRejects
  BY <1>8 DEF WorkerRejects
<1>9. CASE Complete
  BY <1>9 DEF Complete
<1>18. CASE Analysed
  BY <1>18 DEF Analysed
<1>19. CASE Store
  BY <1>19 DEF Store
<1>20. CASE StoreFails
  BY <1>20 DEF StoreFails
<1>10. CASE BackendDies
  <2>1. proxy' \in Proxies
    BY <1>0, <1>10 DEF BackendDies, ProxyReplies
  <2>2. backend' \in Backends
    BY <1>0, <1>10 DEF BackendDies, ProxyReplies
  <2> QED BY <1>10, <2>1, <2>2 DEF BackendDies
<1>11. CASE Relay
  <2>1. backend.reply \in Nat
    OBVIOUS
  <2>2. proxy' \in Proxies
    BY <1>0, <1>11, <2>1 DEF Relay, ProxyReplies
  <2>3. backend' \in Backends
    BY <1>11 DEF Relay
  <2> QED BY <1>11, <2>2, <2>3 DEF Relay
<1>12. CASE ProxyGivesUp
  <2>1. proxy' \in Proxies
    BY <1>0, <1>12 DEF ProxyGivesUp, ProxyReplies
  <2> QED BY <1>12, <2>1 DEF ProxyGivesUp
<1>13. CASE Receives
  <2>1. browser' \in Pages
    BY <1>0, <1>13 DEF Receives, ProxyReplies
  <2>2. proxy' = [proxy EXCEPT !.at = "over", !.left = 0]
    BY <1>13 DEF Receives
  <2>3. proxy' \in Proxies
    BY <2>2
  <2> QED BY <1>13, <2>1, <2>3 DEF Receives
<1>14. CASE BrowserGivesUp
  BY <1>14 DEF BrowserGivesUp
<1>15. CASE ConnectionFails
  BY <1>15 DEF ConnectionFails
<1>16. CASE Tick
  BY <1>16 DEF Tick, Clocked, Runs, Later
<1>17. CASE UNCHANGED chainVars
  BY <1>17 DEF chainVars
<1> QED
  BY <1>1, <1>2, <1>3, <1>4, <1>5, <1>6, <1>7, <1>8, <1>9, <1>10, <1>11, <1>12,
     <1>13, <1>14, <1>15, <1>16, <1>17, <1>18, <1>19, <1>20 DEF ChainNext

USE DEF ProxyReplies

LEMMA ChainInvStep == ChainInv /\ [ChainNext]_chainVars => ChainInv'
<1> SUFFICES ASSUME ChainInv, [ChainNext]_chainVars PROVE ChainInv'
  OBVIOUS
<1> USE DEF ChainInv
<1>0. ChainTypes'
  BY ChainTypesStep
<1>1. CASE AnalyzeDocument
  <2>1. BrowserOutlasts'
    BY <1>1 DEF AnalyzeDocument, ChainTypes, BrowserOutlasts
  <2>2. BackendAnswers'
    BY <1>1 DEF AnalyzeDocument, ChainTypes, BackendAnswers, BrowserOutlasts
  <2>3. ProxyAnswers'
    BY <1>1 DEF AnalyzeDocument, ChainTypes, ProxyAnswers, BackendAnswers,
          StoredAnswers
  <2>4. PageWasTold'
    BY <1>1 DEF AnalyzeDocument, ChainTypes, PageWasTold, BrowserOutlasts,
          ProxyAnswers, BackendAnswers
  <2>5. StoredAnswers'
    BY <1>1 DEF AnalyzeDocument, ChainTypes, StoredAnswers, BrowserOutlasts
  <2> QED BY <1>0, <2>1, <2>2, <2>3, <2>4, <2>5
<1>2. CASE ProxyRefuses
  <2>1. BrowserOutlasts'
    BY <1>2 DEF ProxyRefuses, ChainTypes, BrowserOutlasts
  <2>2. BackendAnswers'
    BY <1>2 DEF ProxyRefuses, ChainTypes, BackendAnswers, BrowserOutlasts
  <2>3. ProxyAnswers'
    BY <1>2 DEF ProxyRefuses, ChainTypes, ProxyAnswers, BackendAnswers,
          StoredAnswers
  <2>4. PageWasTold'
    BY <1>2 DEF ProxyRefuses, ChainTypes, PageWasTold, BrowserOutlasts,
          ProxyAnswers, BackendAnswers
  <2>5. StoredAnswers'
    BY <1>2 DEF ProxyRefuses, ChainTypes, StoredAnswers, BackendAnswers
  <2> QED BY <1>0, <2>1, <2>2, <2>3, <2>4, <2>5
<1>3. CASE ProxyForwards
  <2>1. BrowserOutlasts'
    BY <1>3 DEF ProxyForwards, ChainTypes, BrowserOutlasts
  <2>2. BackendAnswers'
    BY <1>3 DEF ProxyForwards, ChainTypes, BackendAnswers, BrowserOutlasts
  <2>3. ProxyAnswers'
    BY <1>3 DEF ProxyForwards, ChainTypes, ProxyAnswers, BackendAnswers,
          StoredAnswers
  <2>4. PageWasTold'
    BY <1>3 DEF ProxyForwards, ChainTypes, PageWasTold, BrowserOutlasts,
          ProxyAnswers, BackendAnswers
  <2>5. StoredAnswers'
    BY <1>3 DEF ProxyForwards, ChainTypes, StoredAnswers, BackendAnswers
  <2> QED BY <1>0, <2>1, <2>2, <2>3, <2>4, <2>5
<1>4. CASE ProxyCutsBody
  <2>1. BrowserOutlasts'
    BY <1>4 DEF ProxyCutsBody, ChainTypes, BrowserOutlasts
  <2>2. BackendAnswers'
    BY <1>4 DEF ProxyCutsBody, ChainTypes, BackendAnswers, BrowserOutlasts
  <2>3. ProxyAnswers'
    BY <1>4 DEF ProxyCutsBody, ChainTypes, ProxyAnswers, BackendAnswers,
          StoredAnswers
  <2>4. PageWasTold'
    BY <1>4 DEF ProxyCutsBody, ChainTypes, PageWasTold, BrowserOutlasts,
          ProxyAnswers, BackendAnswers
  <2>5. StoredAnswers'
    BY <1>4 DEF ProxyCutsBody, ChainTypes, StoredAnswers, BackendAnswers
  <2> QED BY <1>0, <2>1, <2>2, <2>3, <2>4, <2>5
<1>5. CASE BackendRefuses
  <2>1. BrowserOutlasts'
    BY <1>5 DEF BackendRefuses, ChainTypes, BrowserOutlasts
  <2>2. BackendAnswers'
    BY <1>5 DEF BackendRefuses, ChainTypes, BackendAnswers, BrowserOutlasts
  <2>3. ProxyAnswers'
    BY <1>5 DEF BackendRefuses, ChainTypes, ProxyAnswers, BackendAnswers,
          StoredAnswers
  <2>4. PageWasTold'
    BY <1>5 DEF BackendRefuses, ChainTypes, PageWasTold, BrowserOutlasts,
          ProxyAnswers, BackendAnswers
  <2>5. StoredAnswers'
    BY <1>5 DEF BackendRefuses, ChainTypes, StoredAnswers, BackendAnswers
  <2> QED BY <1>0, <2>1, <2>2, <2>3, <2>4, <2>5
<1>6. CASE Inspect
  <2>1. BrowserOutlasts'
    BY <1>6 DEF Inspect, ChainTypes, BrowserOutlasts
  <2>2. BackendAnswers'
    BY <1>6 DEF Inspect, ChainTypes, BackendAnswers, BrowserOutlasts
  <2>3. ProxyAnswers'
    BY <1>6 DEF Inspect, ChainTypes, ProxyAnswers, BackendAnswers,
          StoredAnswers
  <2>4. PageWasTold'
    BY <1>6 DEF Inspect, ChainTypes, PageWasTold, BrowserOutlasts,
          ProxyAnswers, BackendAnswers
  <2>5. StoredAnswers'
    BY <1>6 DEF Inspect, ChainTypes, StoredAnswers, BackendAnswers
  <2> QED BY <1>0, <2>1, <2>2, <2>3, <2>4, <2>5
<1>7. CASE Analyse
  <2>1. BrowserOutlasts'
    BY <1>7 DEF Analyse, ChainTypes, BrowserOutlasts
  <2>2. BackendAnswers'
    BY <1>7 DEF Analyse, ChainTypes, BackendAnswers, BrowserOutlasts
  <2>3. ProxyAnswers'
    BY <1>7 DEF Analyse, ChainTypes, ProxyAnswers, BackendAnswers,
          StoredAnswers
  <2>4. PageWasTold'
    BY <1>7 DEF Analyse, ChainTypes, PageWasTold, BrowserOutlasts,
          ProxyAnswers, BackendAnswers
  <2>5. StoredAnswers'
    BY <1>7 DEF Analyse, ChainTypes, StoredAnswers, BackendAnswers
  <2> QED BY <1>0, <2>1, <2>2, <2>3, <2>4, <2>5
<1>8. CASE WorkerRejects
  <2>1. BrowserOutlasts'
    BY <1>8 DEF WorkerRejects, ChainTypes, BrowserOutlasts
  <2>2. BackendAnswers'
    BY <1>8 DEF WorkerRejects, ChainTypes, BackendAnswers, BrowserOutlasts
  <2>3. ProxyAnswers'
    BY <1>8 DEF WorkerRejects, ChainTypes, ProxyAnswers, BackendAnswers,
          StoredAnswers
  <2>4. PageWasTold'
    BY <1>8 DEF WorkerRejects, ChainTypes, PageWasTold, BrowserOutlasts,
          ProxyAnswers, BackendAnswers
  <2>5. StoredAnswers'
    BY <1>8 DEF WorkerRejects, ChainTypes, StoredAnswers, BackendAnswers
  <2> QED BY <1>0, <2>1, <2>2, <2>3, <2>4, <2>5
<1>9. CASE Complete
  <2>1. BrowserOutlasts'
    BY <1>9 DEF Complete, ChainTypes, BrowserOutlasts
  <2>2. BackendAnswers'
    BY <1>9 DEF Complete, ChainTypes, BackendAnswers, BrowserOutlasts
  <2>3. ProxyAnswers'
    BY <1>9 DEF Complete, ChainTypes, ProxyAnswers, BackendAnswers,
          StoredAnswers
  <2>4. PageWasTold'
    BY <1>9 DEF Complete, ChainTypes, PageWasTold, BrowserOutlasts,
          ProxyAnswers, BackendAnswers
  <2>5. StoredAnswers'
    BY <1>9 DEF Complete, ChainTypes, StoredAnswers, BackendAnswers
  <2> QED BY <1>0, <2>1, <2>2, <2>3, <2>4, <2>5
<1>18. CASE Analysed
  <2>1. BrowserOutlasts'
    BY <1>18 DEF Analysed, ChainTypes, BrowserOutlasts
  <2>2. BackendAnswers'
    BY <1>18 DEF Analysed, ChainTypes, BackendAnswers, BrowserOutlasts
  <2>3. ProxyAnswers'
    BY <1>18 DEF Analysed, ChainTypes, ProxyAnswers, BackendAnswers,
          StoredAnswers
  <2>4. PageWasTold'
    BY <1>18 DEF Analysed, ChainTypes, PageWasTold, BrowserOutlasts,
          ProxyAnswers, BackendAnswers
  <2>5. StoredAnswers'
    BY <1>18 DEF Analysed, ChainTypes, StoredAnswers, BackendAnswers
  <2> QED BY <1>0, <2>1, <2>2, <2>3, <2>4, <2>5
<1>19. CASE Store
  <2>1. BrowserOutlasts'
    BY <1>19 DEF Store, ChainTypes, BrowserOutlasts
  <2>2. BackendAnswers'
    BY <1>19 DEF Store, ChainTypes, BackendAnswers, BrowserOutlasts
  <2>3. ProxyAnswers'
    BY <1>19 DEF Store, ChainTypes, ProxyAnswers, BackendAnswers,
          StoredAnswers
  <2>4. PageWasTold'
    BY <1>19 DEF Store, ChainTypes, PageWasTold, BrowserOutlasts,
          ProxyAnswers, BackendAnswers
  <2>5. StoredAnswers'
    BY <1>19 DEF Store, ChainTypes, StoredAnswers, BackendAnswers
  <2> QED BY <1>0, <2>1, <2>2, <2>3, <2>4, <2>5
<1>20. CASE StoreFails
  <2>1. BrowserOutlasts'
    BY <1>20 DEF StoreFails, ChainTypes, BrowserOutlasts
  <2>2. BackendAnswers'
    BY <1>20 DEF StoreFails, ChainTypes, BackendAnswers, BrowserOutlasts
  <2>3. ProxyAnswers'
    BY <1>20 DEF StoreFails, ChainTypes, ProxyAnswers, BackendAnswers,
          StoredAnswers
  <2>4. PageWasTold'
    BY <1>20 DEF StoreFails, ChainTypes, PageWasTold, BrowserOutlasts,
          ProxyAnswers, BackendAnswers
  <2>5. StoredAnswers'
    BY <1>20 DEF StoreFails, ChainTypes, StoredAnswers, BackendAnswers
  <2> QED BY <1>0, <2>1, <2>2, <2>3, <2>4, <2>5
<1>10. CASE BackendDies
  <2>1. BrowserOutlasts'
    BY <1>10 DEF BackendDies, ChainTypes, BrowserOutlasts
  <2>2. BackendAnswers'
    <3>1. backend'.at = "over" /\ backend'.reply = backend.reply
      BY <1>10 DEF BackendDies, ChainTypes
    <3>2. proxy' = proxy \/ proxy'.at = "replying"
      BY <1>10 DEF BackendDies
    <3> QED BY <1>10, <3>1, <3>2 DEF BackendDies, ChainTypes, BackendAnswers
  <2>3. ProxyAnswers'
    BY <1>10 DEF BackendDies, ChainTypes, ProxyAnswers, BackendAnswers,
          StoredAnswers
  <2>4. PageWasTold'
    BY <1>10 DEF BackendDies, ChainTypes, PageWasTold, BrowserOutlasts,
          ProxyAnswers, BackendAnswers
  <2>5. StoredAnswers'
    BY <1>10 DEF BackendDies, ChainTypes, StoredAnswers, BackendAnswers
  <2> QED BY <1>0, <2>1, <2>2, <2>3, <2>4, <2>5
<1>11. CASE Relay
  <2>1. BrowserOutlasts'
    BY <1>11 DEF Relay, ChainTypes, BrowserOutlasts
  <2>2. BackendAnswers'
    BY <1>11 DEF Relay, ChainTypes, BackendAnswers, BrowserOutlasts
  <2>3. ProxyAnswers'
    BY <1>11 DEF Relay, ChainTypes, ProxyAnswers, BackendAnswers,
          StoredAnswers
  <2>4. PageWasTold'
    BY <1>11 DEF Relay, ChainTypes, PageWasTold, BrowserOutlasts,
          ProxyAnswers, BackendAnswers
  <2>5. StoredAnswers'
    BY <1>11 DEF Relay, ChainTypes, StoredAnswers, BackendAnswers
  <2> QED BY <1>0, <2>1, <2>2, <2>3, <2>4, <2>5
<1>12. CASE ProxyGivesUp
  <2>1. BrowserOutlasts'
    BY <1>12 DEF ProxyGivesUp, ChainTypes, BrowserOutlasts
  <2>2. BackendAnswers'
    BY <1>12 DEF ProxyGivesUp, ChainTypes, BackendAnswers, BrowserOutlasts
  <2>3. ProxyAnswers'
    BY <1>12 DEF ProxyGivesUp, ChainTypes, ProxyAnswers, BackendAnswers,
          StoredAnswers
  <2>4. PageWasTold'
    BY <1>12 DEF ProxyGivesUp, ChainTypes, PageWasTold, BrowserOutlasts,
          ProxyAnswers, BackendAnswers
  <2>5. StoredAnswers'
    BY <1>12 DEF ProxyGivesUp, ChainTypes, StoredAnswers, BackendAnswers
  <2> QED BY <1>0, <2>1, <2>2, <2>3, <2>4, <2>5
<1>13. CASE Receives
  <2>1. BrowserOutlasts'
    BY <1>13 DEF Receives, ChainTypes, BrowserOutlasts
  <2>2. BackendAnswers'
    BY <1>13 DEF Receives, ChainTypes, BackendAnswers, BrowserOutlasts
  <2>3. ProxyAnswers'
    BY <1>13 DEF Receives, ChainTypes, ProxyAnswers, BackendAnswers,
          StoredAnswers
  <2>4. PageWasTold'
    BY <1>13 DEF Receives, ChainTypes, PageWasTold, BrowserOutlasts,
          ProxyAnswers, BackendAnswers
  <2>5. StoredAnswers'
    BY <1>13 DEF Receives, ChainTypes, StoredAnswers, BackendAnswers
  <2> QED BY <1>0, <2>1, <2>2, <2>3, <2>4, <2>5
<1>14. CASE BrowserGivesUp
  <2>1. BrowserOutlasts'
    BY <1>14 DEF BrowserGivesUp, ChainTypes, BrowserOutlasts
  <2>2. BackendAnswers'
    BY <1>14 DEF BrowserGivesUp, ChainTypes, BackendAnswers, BrowserOutlasts
  <2>3. ProxyAnswers'
    BY <1>14 DEF BrowserGivesUp, ChainTypes, ProxyAnswers, BackendAnswers,
          StoredAnswers
  <2>4. PageWasTold'
    BY <1>14 DEF BrowserGivesUp, ChainTypes, PageWasTold, BrowserOutlasts,
          ProxyAnswers, BackendAnswers
  <2>5. StoredAnswers'
    BY <1>14 DEF BrowserGivesUp, ChainTypes, StoredAnswers, BackendAnswers
  <2> QED BY <1>0, <2>1, <2>2, <2>3, <2>4, <2>5
<1>15. CASE ConnectionFails
  <2>1. BrowserOutlasts'
    BY <1>15 DEF ConnectionFails, ChainTypes, BrowserOutlasts
  <2>2. BackendAnswers'
    BY <1>15 DEF ConnectionFails, ChainTypes, BackendAnswers, BrowserOutlasts
  <2>3. ProxyAnswers'
    BY <1>15 DEF ConnectionFails, ChainTypes, ProxyAnswers, BackendAnswers,
          StoredAnswers
  <2>4. PageWasTold'
    BY <1>15 DEF ConnectionFails, ChainTypes, PageWasTold, BrowserOutlasts,
          ProxyAnswers, BackendAnswers
  <2>5. StoredAnswers'
    BY <1>15 DEF ConnectionFails, ChainTypes, StoredAnswers, BackendAnswers
  <2> QED BY <1>0, <2>1, <2>2, <2>3, <2>4, <2>5
<1>16. CASE Tick
  <2>1. BrowserOutlasts'
    BY <1>16 DEF Tick, Clocked, Runs, Later, ChainTypes, BrowserOutlasts
  <2>2. BackendAnswers'
    BY <1>16 DEF Tick, Clocked, Runs, Later, ChainTypes, BackendAnswers, BrowserOutlasts
  <2>3. ProxyAnswers'
    BY <1>16 DEF Tick, Clocked, Runs, Later, ChainTypes, ProxyAnswers, BackendAnswers,
          StoredAnswers
  <2>4. PageWasTold'
    BY <1>16 DEF Tick, Clocked, Runs, Later, ChainTypes, PageWasTold, BrowserOutlasts,
          ProxyAnswers, BackendAnswers
  <2>5. StoredAnswers'
    BY <1>16 DEF Tick, Clocked, Runs, Later, ChainTypes, StoredAnswers, BackendAnswers
  <2> QED BY <1>0, <2>1, <2>2, <2>3, <2>4, <2>5
<1>17. CASE UNCHANGED chainVars
  BY <1>17 DEF chainVars, ChainTypes, BrowserOutlasts, BackendAnswers, StoredAnswers,
               ProxyAnswers, PageWasTold
<1> QED
  BY <1>1, <1>2, <1>3, <1>4, <1>5, <1>6, <1>7, <1>8, <1>9, <1>10, <1>11, <1>12,
     <1>13, <1>14, <1>15, <1>16, <1>17, <1>18, <1>19, <1>20 DEF ChainNext

\* Whatever is slow, refused, cut short or dies, and wherever the storing fails: the
\* page calls the upstream unreachable only when it is, when its own connection broke
\* or when the back end itself answered 503; it shows as live only what is stored
\* whole; and what it calls a failure left nothing on record, but for an analysis given
\* up on, an answer cut short, and a back end that failed while storing (422, 500).
THEOREM PagesTellTheTruth == ChainSpec => []PageTellsTheTruth
<1>1. ChainInv => PageTellsTheTruth
  <2> SUFFICES ASSUME ChainInv PROVE PageTellsTheTruth
    OBVIOUS
  <2> USE DEF ChainInv
  <2>1. ASSUME browser.shown = "unavailable"
        PROVE  ~reachable \/ lost \/ backend.reply = 503
    BY <2>1 DEF ChainTypes, BackendAnswers, ProxyAnswers, PageWasTold
  <2>2. ASSUME browser.shown = "live"
        PROVE  stored = 3
    BY <2>2 DEF ChainTypes, StoredAnswers, ProxyAnswers, PageWasTold
  <2>3. ASSUME browser.shown = "failure", stored > 0
        PROVE  \/ proxy.reply = 504 /\ proxy.by = "proxy"
               \/ proxy.reply = 200
               \/ proxy.reply = 422 /\ backend.reply = 422 /\ stored < 3
               \/ proxy.reply = 500 /\ backend.reply = 500
    BY <2>3 DEF ChainTypes, StoredAnswers, ProxyAnswers, PageWasTold
  <2> QED BY <2>1, <2>2, <2>3 DEF PageTellsTheTruth
<1> QED BY <1>1, ChainInvInit, ChainInvStep, PTL DEF ChainSpec

-----------------------------------------------------------------------------
(* The agent's runs. *)

\* The inputs of a run, whichever of them are enumerated.
InputRecords == [previous : BOOLEAN, pages : BOOLEAN, risky : BOOLEAN,
                 reference : BOOLEAN, evidence : Evidence]
\* The fields of a run, the answers of a provider and the entries of a trace.
AgentFields == {"how", "input", "pc", "status", "plan", "trace", "attempt", "asked",
                "extraction", "assessment", "decision", "review", "cost", "snapshot",
                "certificate"}
Outcomes == {"ok", "retryable", "invalid", "fatal"}
Entries == {[step |-> c.step, tool |-> c.tool, ok |-> b] :
               c \in {Calls[i] : i \in 1 .. 8}, b \in BOOLEAN}

\* How far a run is; one that FAILED ended anywhere.
Well == agent.status # "FAILED"
Decided == agent.pc \in {"freeze", "certify", "finish"} \/ (agent.pc = "ended" /\ Well)
Frozen == agent.pc \in {"certify", "finish"} \/ (agent.pc = "ended" /\ Well)
Certified == agent.pc = "finish" \/ (agent.pc = "ended" /\ Well)
CallsDone == agent.pc = "decide" \/ Decided

\* What a run is made of.
AgentTypes ==
    /\ logs \in Seq(Outcomes)
    /\ Running =>
        /\ DOMAIN agent = AgentFields
        /\ agent.pc \in {"plan", "call", "extract", "decide", "freeze", "certify", "finish",
                         "ended"}
        /\ agent.input \in InputRecords
        /\ agent.trace \in Seq(Entries)
        /\ agent.asked \in Seq(Outcomes)
        /\ agent.cost \in Nat
        /\ (agent.pc = "ended") <=> (agent.status \in Ends)

\* The trace is a prefix of the plan, and in a run that did not fail every call but
\* the narrative's went well.
FollowsInv ==
    Running =>
        /\ Len(agent.trace) <= Len(PlanFor(agent.input))
        /\ \A i \in 1 .. Len(agent.trace) :
              /\ PlanFor(agent.input)[i] = Step(agent.trace[i].step, agent.trace[i].tool)
              /\ Well /\ ~agent.trace[i].ok => agent.trace[i].tool = "narrative_evidence"

\* How long the trace is at each point of a run, and what plan and certificate hold.
ProgressInv ==
    Running =>
        /\ agent.pc = "plan" => agent.trace = << >>
        /\ agent.pc \in {"call", "extract"} => Len(agent.trace) < Len(PlanFor(agent.input))
        /\ agent.pc = "extract" => agent.input.pages /\ Len(agent.trace) = 2
        /\ agent.pc \in {"call", "extract"} \/ CallsDone => agent.plan = PlanFor(agent.input)
        /\ CallsDone => Len(agent.trace) = Len(PlanFor(agent.input))
        /\ Certified => agent.certificate = agent.trace
        /\ agent.pc # "ended" /\ ~Certified => agent.certificate = << >>
        /\ agent.certificate \in {<< >>, agent.trace}

\* The attempts of a run: all but the last one invited another, and the log is the
\* run's own from the moment the extraction begins.
AttemptsInv ==
    Running =>
        /\ Len(agent.asked) <= MaxRetries + 1
        /\ \A i \in 1 .. Len(agent.asked) :
              i < Len(agent.asked) \/ agent.pc = "extract" => agent.asked[i] = "retryable"
        /\ agent.pc = "extract" => /\ agent.attempt = Len(agent.asked) + 1
                                   /\ Len(agent.asked) <= MaxRetries
                                   /\ logs = agent.asked
        /\ ~agent.input.pages \/ (Len(agent.trace) <= 2 /\ agent.pc # "extract")
              => agent.asked = << >>
        /\ agent.input.pages /\ Len(agent.trace) >= 3 => logs = agent.asked

\* What a decision rests on.
Doubt == Semantic \/ agent.input.evidence = "conflicting"

\* What follows from the assessment, and from its being frozen.
OutcomeInv ==
    Running =>
        /\ agent.pc \in {"plan", "call", "extract", "decide"} => agent.assessment # "whole"
        /\ Decided => agent.assessment = "whole"
        /\ agent.assessment = "whole" =>
              /\ agent.decision = DecisionOn(agent.input.evidence, Doubt)
              /\ Doubt => agent.review
              /\ agent.input.pages => agent.cost = Cost(agent.asked)
        /\ Frozen => agent.snapshot = [input |-> FrozenInput(agent.input),
                                       output |-> Output(agent),
                                       release |-> agent.snapshot.release]
        /\ agent.status = "COMPLETED" => agent.decision \in {"PASS", "FLAG"} /\ ~agent.review
        /\ agent.pc = "ended" /\ Well /\ agent.review => agent.status = "REVIEW_REQUIRED"

\* What a caller kept: a whole output of its input, and the input frozen from it.
Faithful(k) ==
    LET o == k.of.output IN
    /\ k.status \in Ends \ {"FAILED"}
    /\ k.certificate # << >>
    /\ o = [input |-> o.input, extraction |-> o.extraction, decision |-> o.decision,
            assessment |-> "whole", cost |-> o.cost]
    /\ o.input \in InputRecords
    /\ k.of.input = FrozenInput(o.input)
    /\ o.decision = DecisionOn(o.input.evidence,
                               \/ \/ o.extraction = "failed"
                                  \/ o.extraction = "nothing" /\ o.input.risky
                               \/ o.input.evidence = "conflicting")
    /\ k.reference <=> o.input.reference
    /\ k.stale <=> (~o.input.pages /\ o.cost > 0)

\* A replay runs on what was kept, and a verdict is out only when it is over.
KeptInv ==
    /\ kept # Null => Faithful(kept)
    /\ Running /\ agent.how = "replay" => kept # Null /\ agent.input = kept.of.input
    /\ verdict # Null => ~Running
    /\ DriftIsExplained

\* The inductive invariant.
AgentInv == AgentTypes /\ FollowsInv /\ ProgressInv /\ AttemptsInv /\ OutcomeInv /\ KeptInv

\* The calls, one by one.
LEMMA CallsAre ==
    /\ Calls[1].step = "metrics" /\ Calls[1].tool = "financial_metrics" /\ Calls[1].when = "always"
    /\ Calls[2].step = "models" /\ Calls[2].tool = "traditional_models" /\ Calls[2].when = "always"
    /\ Calls[3].step = "claims" /\ Calls[3].tool = "narrative_evidence" /\ Calls[3].when = "pages"
    /\ Calls[4].step = "rules" /\ Calls[4].tool = "risk_rules" /\ Calls[4].when = "always"
    /\ Calls[5].step = "consistency" /\ Calls[5].tool = "contradiction_detection"
    /\ Calls[5].when = "pages"
    /\ Calls[6].step = "periods" /\ Calls[6].tool = "period_comparison" /\ Calls[6].when = "previous"
    /\ Calls[7].step = "assessment" /\ Calls[7].tool = "risk_assessment" /\ Calls[7].when = "always"
    /\ Calls[8].step = "verification" /\ Calls[8].tool = "claim_verification"
    /\ Calls[8].when = "always"
    /\ \A i \in 1 .. 8 : Calls[i].status \in {"COLLECTING", "CROSS_CHECKING", "SYNTHESIZING", "VERIFYING"}
BY DEF Calls


\* A sequence that grows by one.
LEMMA Grown ==
    ASSUME NEW S, NEW s \in Seq(S), NEW x \in S
    PROVE  /\ s \o << x >> \in Seq(S)
           /\ Len(s \o << x >>) = Len(s) + 1
           /\ Len(s) \in Nat
           /\ \A i \in 1 .. Len(s) : (s \o << x >>)[i] = s[i]
           /\ (s \o << x >>)[Len(s) + 1] = x
<1>1. << x >> \in Seq(S) /\ Len(<< x >>) = 1 /\ << x >>[1] = x /\ Len(s) \in Nat
  OBVIOUS
<1>2. /\ s \o << x >> \in Seq(S)
      /\ Len(s \o << x >>) = Len(s) + Len(<< x >>)
      /\ \A i \in 1 .. Len(s) + Len(<< x >>) : (s \o << x >>)[i] =
            IF i <= Len(s) THEN s[i] ELSE << x >>[i - Len(s)]
  BY <1>1, ConcatProperties
<1> DEFINE one == << x >>
           t == s \o << x >>
<1> HIDE DEF one, t
<1>3. /\ t \in Seq(S) /\ Len(t) = Len(s) + 1
      /\ \A i \in 1 .. Len(s) + 1 : t[i] = IF i <= Len(s) THEN s[i] ELSE one[i - Len(s)]
      /\ one[1] = x
  BY <1>1, <1>2 DEF one, t
<1>4. /\ \A i \in 1 .. Len(s) : t[i] = s[i]
      /\ t[Len(s) + 1] = x
  <2>1. Len(s) + 1 \in 1 .. Len(s) + 1 /\ ~(Len(s) + 1 <= Len(s)) /\ (Len(s) + 1) - Len(s) = 1
    BY <1>1
  <2>2. t[Len(s) + 1] = one[(Len(s) + 1) - Len(s)]
    BY <2>1, <1>3
  <2>3. t[Len(s) + 1] = x
    BY <2>1, <2>2, <1>3
  <2>4. \A i \in 1 .. Len(s) : t[i] = s[i]
    BY <1>1, <1>3
  <2> QED BY <2>3, <2>4
<1> QED BY <1>1, <1>3, <1>4 DEF t

\* Two sequences of one make one of two.
LEMMA Pair == ASSUME NEW a, NEW b PROVE << a >> \o << b >> = << a, b >>
<1>1. << a >> \in Seq({a, b}) /\ a \in {a, b} /\ b \in {a, b} /\ Len(<< a >>) = 1 /\ << a >>[1] = a
  OBVIOUS
<1> DEFINE t == << a >> \o << b >>
<1>2. t \in Seq({a, b}) /\ Len(t) = 2 /\ t[1] = a /\ t[2] = b
  <2>1. /\ t \in Seq({a, b}) /\ Len(t) = Len(<< a >>) + 1
        /\ \A i \in 1 .. Len(<< a >>) : t[i] = << a >>[i]
        /\ t[Len(<< a >>) + 1] = b
    BY <1>1, Grown
  <2> HIDE DEF t
  <2> QED BY <2>1, <1>1
<1> HIDE DEF t
<1>3. << a, b >> \in Seq({a, b}) /\ Len(<< a, b >>) = 2 /\ << a, b >>[1] = a /\ << a, b >>[2] = b
  OBVIOUS
<1>4. \A i \in 1 .. 2 : i \in {1, 2}
  OBVIOUS
<1>5. t = << a, b >>
  BY <1>2, <1>3, <1>4, SeqEqual
<1> QED BY <1>5 DEF t

\* The calls as a set, and the steps a plan may have.
TheCalls == {Calls[i] : i \in 1 .. 8}
PlanSteps == {Step(c.step, c.tool) : c \in TheCalls}

\* A plan names the calls one by one, and the narrative's is the third, or none.
Aligned(s, p, in) ==
    /\ s \in Seq(TheCalls) /\ p \in Seq(PlanSteps)
    /\ Len(p) = Len(s) /\ Len(s) >= 2 /\ (in.pages => Len(s) >= 3)
    /\ \A i \in 1 .. Len(s) :
          /\ p[i] = Step(s[i].step, s[i].tool)
          /\ s[i].step = "claims" <=> (in.pages /\ i = 3)

\* A call that is taken lengthens text and plan alike.
LEMMA OneMoreCall ==
    ASSUME NEW s, NEW p, NEW in, Aligned(s, p, in),
           NEW c \in TheCalls, c.step # "claims"
    PROVE  /\ Aligned(s \o << c >>, p \o << Step(c.step, c.tool) >>, in)
           /\ Len(s \o << c >>) = Len(s) + 1 /\ Len(s) \in Nat
<1> DEFINE e == Step(c.step, c.tool)
           s1 == s \o << c >>
           p1 == p \o << e >>
<1>1. << c >> \in Seq(TheCalls) /\ e \in PlanSteps /\ << e >> \in Seq(PlanSteps)
  BY DEF PlanSteps
<1> HIDE DEF e
<1>2. /\ s1 \in Seq(TheCalls) /\ Len(s1) = Len(s) + 1
      /\ \A i \in 1 .. Len(s) : s1[i] = s[i]
      /\ s1[Len(s) + 1] = c
  BY Grown DEF Aligned
<1>3. /\ p1 \in Seq(PlanSteps) /\ Len(p1) = Len(p) + 1
      /\ \A i \in 1 .. Len(p) : p1[i] = p[i]
      /\ p1[Len(p) + 1] = e
  BY <1>1, Grown DEF Aligned
<1>4. Len(s) \in Nat
  BY LenProperties DEF Aligned
<1> HIDE DEF s1, p1
<1>5. ASSUME NEW i \in 1 .. Len(s1)
      PROVE  /\ p1[i] = Step(s1[i].step, s1[i].tool)
             /\ s1[i].step = "claims" <=> (in.pages /\ i = 3)
  <2>1. CASE i <= Len(s)
    BY <2>1, <1>2, <1>3, <1>4 DEF Aligned
  <2>2. CASE ~(i <= Len(s))
    <3>1. i = Len(s) + 1
      BY <2>2, <1>2, <1>4
    <3>2. s1[i] = c /\ p1[i] = e
      BY <3>1, <1>2, <1>3, <1>4 DEF Aligned
    <3>3. in.pages => i # 3
      BY <3>1, <1>4 DEF Aligned
    <3> QED BY <3>2, <3>3 DEF e
  <2> QED BY <2>1, <2>2
<1>6. Aligned(s1, p1, in)
  BY <1>2, <1>3, <1>4, <1>5 DEF Aligned
<1> QED BY <1>2, <1>4, <1>6 DEF s1, p1, e

\* A call that is not taken leaves both as they are.
LEMMA NoCall ==
    ASSUME NEW s, NEW p, NEW in, Aligned(s, p, in)
    PROVE  s \o << >> = s /\ p \o << >> = p
BY ConcatEmptySeq DEF Aligned

\* Two appended calls are appended one after the other.
LEMMA TwoMore ==
    ASSUME NEW p \in Seq(PlanSteps), NEW x \in PlanSteps, NEW y \in PlanSteps
    PROVE  (p \o << x >>) \o << y >> = p \o << x, y >>
<1> DEFINE px == p \o << x >>
           pair == << x, y >>
<1>1. /\ px \in Seq(PlanSteps) /\ Len(px) = Len(p) + 1 /\ Len(p) \in Nat
      /\ \A i \in 1 .. Len(p) : px[i] = p[i]
      /\ px[Len(p) + 1] = x
  BY Grown
<1>2. pair \in Seq(PlanSteps) /\ Len(pair) = 2 /\ pair[1] = x /\ pair[2] = y
  OBVIOUS
<1> HIDE DEF px
<1> DEFINE pxy == px \o << y >>
<1>3. /\ pxy \in Seq(PlanSteps) /\ Len(pxy) = Len(px) + 1
      /\ \A i \in 1 .. Len(px) : pxy[i] = px[i]
      /\ pxy[Len(px) + 1] = y
  BY <1>1, Grown
<1> HIDE DEF pxy, pair
<1> DEFINE joint == p \o pair
<1>4. /\ joint \in Seq(PlanSteps) /\ Len(joint) = Len(p) + Len(pair)
      /\ \A i \in 1 .. Len(p) + Len(pair) :
           joint[i] = IF i <= Len(p) THEN p[i] ELSE pair[i - Len(p)]
  BY <1>2, ConcatProperties
<1> HIDE DEF joint
<1>5. Len(pxy) = Len(p) + 2 /\ Len(joint) = Len(p) + 2
  BY <1>1, <1>2, <1>3, <1>4
<1>6. \A i \in 1 .. Len(p) : pxy[i] = joint[i]
  <2> TAKE i \in 1 .. Len(p)
  <2>1. i \in 1 .. Len(px) /\ i \in 1 .. Len(p) + Len(pair) /\ i <= Len(p)
    BY <1>1, <1>2
  <2>2. pxy[i] = p[i]
    BY <2>1, <1>1, <1>3
  <2>3. joint[i] = p[i]
    BY <2>1, <1>4
  <2> QED BY <2>2, <2>3
<1>7. pxy[Len(p) + 1] = x /\ pxy[Len(p) + 2] = y
  <2>1. Len(p) + 1 \in 1 .. Len(px) /\ Len(px) + 1 = Len(p) + 2
    BY <1>1
  <2> QED BY <2>1, <1>1, <1>3
<1>8. joint[Len(p) + 1] = x /\ joint[Len(p) + 2] = y
  <2>1. ASSUME NEW k \in 1 .. 2
        PROVE  joint[Len(p) + k] = pair[k]
    <3>1. /\ Len(p) + k \in 1 .. Len(p) + Len(pair)
          /\ ~(Len(p) + k <= Len(p)) /\ (Len(p) + k) - Len(p) = k
      BY <1>1, <1>2
    <3> QED BY <3>1, <1>4
  <2>2. joint[Len(p) + 1] = pair[1] /\ joint[Len(p) + 2] = pair[2]
    BY <2>1
  <2> QED BY <2>2, <1>2
<1>9. \A i \in 1 .. Len(pxy) : pxy[i] = joint[i]
  <2> TAKE i \in 1 .. Len(pxy)
  <2>1. i \in 1 .. Len(p) \/ i = Len(p) + 1 \/ i = Len(p) + 2
    BY <1>1, <1>5
  <2> QED BY <2>1, <1>6, <1>7, <1>8
<1>10. pxy = joint
  BY <1>3, <1>4, <1>5, <1>9, SeqEqual
<1> QED BY <1>10 DEF pxy, px, joint, pair

\* The plan made beforehand and the text of run() agree.
LEMMA PlanIsTheText ==
    ASSUME NEW in
    PROVE  Aligned(CallsOf(in), PlanFor(in), in) /\ Len(CallsOf(in)) >= 5
<1> DEFINE P(i) == Step(Calls[i].step, Calls[i].tool)
           C(i) == << Calls[i] >>
           s1 == C(1) \o C(2)
           p1 == << P(1), P(2) >>
           s2 == s1 \o (IF in.pages THEN C(3) ELSE << >>)
           p2 == p1 \o (IF in.pages THEN << P(3) >> ELSE << >>)
           s3 == s2 \o C(4)
           p3 == p2 \o << P(4) >>
           s4 == s3 \o (IF in.pages THEN C(5) ELSE << >>)
           p4 == p3 \o (IF in.pages THEN << P(5) >> ELSE << >>)
           s5 == s4 \o (IF in.previous THEN C(6) ELSE << >>)
           p5 == p4 \o (IF in.previous THEN << P(6) >> ELSE << >>)
           s6 == s5 \o C(7)
           p6 == p5 \o << P(7) >>
           s7 == s6 \o C(8)
           p7 == p6 \o << P(8) >>
<1>0. \A i \in 1 .. 8 : Calls[i] \in TheCalls
  BY DEF TheCalls
<1>p. \A i \in 1 .. 8 : P(i) \in PlanSteps
  BY <1>0 DEF PlanSteps
<1>1. s1 \in Seq(TheCalls) /\ Len(s1) = 2 /\ s1[1] = Calls[1] /\ s1[2] = Calls[2]
  <2>1. C(1) \in Seq(TheCalls) /\ C(2) \in Seq(TheCalls)
    BY <1>0
  <2>2. s1 = << Calls[1], Calls[2] >>
    BY Pair
  <2> QED BY <1>0, <2>2
<1>2. p1 \in Seq(PlanSteps) /\ Len(p1) = 2 /\ p1[1] = P(1) /\ p1[2] = P(2)
  BY <1>p
<1>3. s2 \in Seq(TheCalls) /\ p2 \in Seq(PlanSteps) /\ Aligned(s2, p2, in)
  <2>0. \A i \in 1 .. 2 : i \in {1, 2}
    OBVIOUS
  <2>1. CASE ~in.pages
    <3>1. s2 = s1 /\ p2 = p1
      BY <2>1, <1>1, <1>2, ConcatEmptySeq
    <3> HIDE DEF s1, p1, s2, p2
    <3> QED BY <3>1, <2>0, <2>1, <1>1, <1>2, CallsAre DEF Aligned
  <2>2. CASE in.pages
    <3> DEFINE c == Calls[3]
    <3>1. c \in TheCalls /\ P(3) \in PlanSteps /\ c.step = "claims"
      BY <1>0, <1>p, CallsAre
    <3>2. s2 = s1 \o << c >> /\ p2 = p1 \o << P(3) >>
      BY <2>2
    <3> HIDE DEF s1, p1, s2, p2, P, c
    <3>3. /\ s2 \in Seq(TheCalls) /\ Len(s2) = Len(s1) + 1
          /\ \A i \in 1 .. Len(s1) : s2[i] = s1[i]
          /\ s2[Len(s1) + 1] = c
      <4>1. s1 \in Seq(TheCalls) /\ c \in TheCalls /\ s2 = s1 \o << c >>
        BY <3>1, <3>2, <1>1
      <4> QED BY <4>1, Grown
    <3>4. /\ p2 \in Seq(PlanSteps) /\ Len(p2) = Len(p1) + 1
          /\ \A i \in 1 .. Len(p1) : p2[i] = p1[i]
          /\ p2[Len(p1) + 1] = P(3)
      <4>1. p1 \in Seq(PlanSteps) /\ P(3) \in PlanSteps /\ p2 = p1 \o << P(3) >>
        BY <3>1, <3>2, <1>2
      <4> QED BY <4>1, Grown
    <3>5. s2[1] = s1[1] /\ s2[2] = s1[2] /\ s2[3] = c /\ Len(s2) = 3
      BY <3>3, <1>1
    <3>6. p2[1] = p1[1] /\ p2[2] = p1[2] /\ p2[3] = P(3) /\ Len(p2) = 3
      BY <3>4, <1>2
    <3>7. \A i \in 1 .. 3 : i \in {1, 2, 3}
      OBVIOUS
    <3>8. \A i \in 1 .. 3 : p2[i] = Step(s2[i].step, s2[i].tool)
      BY <3>5, <3>6, <3>7, <1>1, <1>2 DEF P, c
    <3>9. \A i \in 1 .. 3 : s2[i].step = "claims" <=> i = 3
      BY <3>1, <3>5, <3>7, <1>1, CallsAre
    <3>10. s2 \in Seq(TheCalls) /\ p2 \in Seq(PlanSteps) /\ Len(s2) = 3 /\ Len(p2) = 3
      BY <3>3, <3>4, <3>5, <3>6
    <3> QED BY <2>2, <3>8, <3>9, <3>10 DEF Aligned
  <2> HIDE DEF s2, p2
  <2> QED BY <2>1, <2>2 DEF Aligned
<1>n. \A i \in {4, 5, 6, 7, 8} : Calls[i].step # "claims"
  BY CallsAre
<1>4. Aligned(s3, p3, in) /\ Len(s3) >= 3
  <2> HIDE DEF s2, p2
  <2>1. Len(s2) \in Nat /\ Len(s2) >= 2
    BY <1>3, LenProperties DEF Aligned
  <2> QED BY <2>1, <1>0, <1>n, <1>3, OneMoreCall
<1>5. Aligned(s4, p4, in) /\ Len(s4) >= 3
  <2> HIDE DEF s3, p3
  <2>1. CASE ~in.pages
    BY <2>1, <1>4, NoCall
  <2>2. CASE in.pages
    BY <2>2, <1>0, <1>n, <1>4, OneMoreCall
  <2> QED BY <2>1, <2>2
<1>6. Aligned(s5, p5, in) /\ Len(s5) >= 3
  <2> HIDE DEF s4, p4
  <2>1. CASE ~in.previous
    BY <2>1, <1>5, NoCall
  <2>2. CASE in.previous
    BY <2>2, <1>0, <1>n, <1>5, OneMoreCall
  <2> QED BY <2>1, <2>2
<1>7. Aligned(s6, p6, in) /\ Len(s6) >= 4
  <2> HIDE DEF s5, p5
  <2> QED BY <1>0, <1>n, <1>6, OneMoreCall
<1>8. Aligned(s7, p7, in) /\ Len(s7) >= 5
  <2> HIDE DEF s6, p6
  <2> QED BY <1>0, <1>n, <1>7, OneMoreCall
<1>9. CallsOf(in) = s7
  BY CallsAre DEF CallsOf
<1>10. PlanFor(in) = p7
  <2>1. p5 \in Seq(PlanSteps)
    BY <1>6 DEF Aligned
  <2>2. P(7) \in PlanSteps /\ P(8) \in PlanSteps
    BY <1>p
  <2>3. p7 = (p5 \o << P(7) >>) \o << P(8) >>
    OBVIOUS
  <2>4. PlanFor(in) = p5 \o << P(7), P(8) >>
    BY CallsAre DEF PlanFor
  <2> HIDE DEF p7, p5, P
  <2> QED BY <2>1, <2>2, <2>3, <2>4, TwoMore
<1> HIDE DEF s7, p7
<1> QED BY <1>8, <1>9, <1>10

\* What the proofs use of that agreement.
LEMMA PlanFacts ==
    ASSUME NEW in
    PROVE  /\ Len(PlanFor(in)) \in Nat /\ Len(PlanFor(in)) >= 5
           /\ Len(CallsOf(in)) = Len(PlanFor(in))
           /\ \A i \in 1 .. Len(PlanFor(in)) :
                 /\ CallsOf(in)[i] \in TheCalls
                 /\ PlanFor(in)[i] = Step(CallsOf(in)[i].step, CallsOf(in)[i].tool)
                 /\ CallsOf(in)[i].step = "claims" <=> (in.pages /\ i = 3)
BY PlanIsTheText, LenProperties, ElementOfSeq DEF Aligned

\* The same, seen from the calls.
LEMMA CallFacts ==
    ASSUME NEW c \in TheCalls
    PROVE  /\ c.step = "claims" => c.tool = "narrative_evidence"
           /\ c.status \notin Ends
<1>1. \A i \in 1 .. 8 : i \in {1, 2, 3, 4, 5, 6, 7, 8}
  OBVIOUS
<1>2. c.step = "claims" => c = Calls[3]
  BY <1>1, CallsAre DEF TheCalls
<1> QED BY <1>2, CallsAre DEF TheCalls, Ends

\* The call whose turn it is continues the plan.
LEMMA TurnFacts ==
    ASSUME AgentTypes, ProgressInv, agent.pc \in {"call", "extract"}
    PROVE  /\ Len(agent.trace) \in Nat
           /\ Turn \in TheCalls
           /\ PlanFor(agent.input)[Len(agent.trace) + 1] = Step(Turn.step, Turn.tool)
           /\ Turn.step = "claims" <=> (agent.input.pages /\ Len(agent.trace) = 2)
           /\ agent.pc = "extract" => Turn.step = "claims"
           /\ Len(CallsOf(agent.input)) = Len(PlanFor(agent.input))
<1>1. Len(agent.trace) \in Nat /\ Len(agent.trace) < Len(PlanFor(agent.input))
  BY LenProperties DEF AgentTypes, ProgressInv, Running, AgentAt
<1> DEFINE in == agent.input
           n == Len(agent.trace) + 1
<1>2. Len(PlanFor(in)) \in Nat /\ Len(CallsOf(in)) = Len(PlanFor(in))
  BY PlanFacts
<1>3. n \in 1 .. Len(PlanFor(in))
  BY <1>1, <1>2
<1>4. /\ Turn \in TheCalls
      /\ PlanFor(in)[n] = Step(Turn.step, Turn.tool)
      /\ Turn.step = "claims" <=> (in.pages /\ n = 3)
  BY <1>3, PlanFacts DEF Turn
<1>5. agent.pc = "extract" => in.pages /\ Len(agent.trace) = 2
  BY DEF ProgressInv, Running, AgentAt
<1>6. n = 3 <=> Len(agent.trace) = 2
  <2>1. \A k \in Nat : k + 1 = 3 <=> k = 2
    OBVIOUS
  <2> QED BY <2>1, <1>1
<1> QED BY <1>1, <1>2, <1>4, <1>5, <1>6, Zenon

\* What one more entry in the trace does.
LEMMA NotedFacts ==
    ASSUME agent.trace \in Seq(Entries), NEW c \in TheCalls, NEW ok \in BOOLEAN
    PROVE  /\ Noted(c, ok) \in Seq(Entries)
           /\ Len(Noted(c, ok)) = Len(agent.trace) + 1
           /\ Len(agent.trace) \in Nat
           /\ \A i \in 1 .. Len(agent.trace) : Noted(c, ok)[i] = agent.trace[i]
           /\ Noted(c, ok)[Len(agent.trace) + 1].step = c.step
           /\ Noted(c, ok)[Len(agent.trace) + 1].tool = c.tool
           /\ Noted(c, ok)[Len(agent.trace) + 1].ok = ok
<1> DEFINE e == [step |-> c.step, tool |-> c.tool, ok |-> ok]
<1>1. e \in Entries
  BY DEF Entries, TheCalls
<1>2. e.step = c.step /\ e.tool = c.tool /\ e.ok = ok
  OBVIOUS
<1>3. Noted(c, ok) = Append(agent.trace, e)
  BY DEF Noted
<1> HIDE DEF e
<1>4. /\ Append(agent.trace, e) \in Seq(Entries)
      /\ Len(Append(agent.trace, e)) = Len(agent.trace) + 1
      /\ Len(agent.trace) \in Nat
      /\ \A i \in 1 .. Len(agent.trace) : Append(agent.trace, e)[i] = agent.trace[i]
      /\ Append(agent.trace, e)[Len(agent.trace) + 1] = e
  BY <1>1
<1> QED BY <1>2, <1>3, <1>4

\* An attempt is noted behind the others.
LEMMA OneMoreOutcome ==
    ASSUME NEW s \in Seq(Outcomes), NEW o \in Outcomes
    PROVE  /\ Append(s, o) \in Seq(Outcomes) /\ Len(Append(s, o)) = Len(s) + 1
           /\ Len(s) \in Nat
           /\ \A i \in 1 .. Len(s) : Append(s, o)[i] = s[i]
           /\ Append(s, o)[Len(s) + 1] = o
OBVIOUS

\* A cost is a number.
LEMMA Costs == ASSUME NEW s \in Seq(Outcomes) PROVE Cost(s) \in Nat
<1>1. IsFiniteSet(1 .. Len(s)) /\ DOMAIN s = 1 .. Len(s)
  BY FS_Interval, LenProperties
<1>2. IsFiniteSet({i \in DOMAIN s : s[i] \in {"ok", "invalid"}})
  BY <1>1, FS_Subset
<1> QED BY <1>2, FS_CardinalityType DEF Cost

\* Who asked nobody pays nothing.
LEMMA NoCost == Cost(<< >>) = 0
<1>1. {i \in DOMAIN << >> : << >>[i] \in {"ok", "invalid"}} = {}
  OBVIOUS
<1> QED BY <1>1, FS_EmptySet DEF Cost

\* A context at rest keeps nothing but its log and what was kept.
LEMMA RestKeeps ==
    ASSUME AgentInv, ~Running', logs' \in Seq(Outcomes), KeptInv'
    PROVE  AgentInv'
BY DEF AgentInv, AgentTypes, FollowsInv, ProgressInv, AttemptsInv, OutcomeInv

\* While a run goes on, nothing it started from changes.
LEMMA RunKeepsKept ==
    ASSUME KeptInv, Running, kept' = kept, verdict' = verdict,
           agent'.how = agent.how, agent'.input = agent.input
    PROVE  KeptInv'
<1>1. verdict = Null
  BY DEF KeptInv
<1> QED BY <1>1 DEF KeptInv, Faithful, DriftIsExplained, Running, AgentAt

\* A call is over: the trace follows the plan for one more step.
CallOver(ok) ==
    /\ agent.pc \in {"call", "extract"} /\ (ok \/ Turn.step = "claims")
    /\ DOMAIN agent' = AgentFields
    /\ agent'.how = agent.how /\ agent'.input = agent.input /\ agent'.plan = agent.plan
    /\ agent'.cost = agent.cost /\ agent'.certificate = agent.certificate
    /\ agent'.trace = Noted(Turn, ok) /\ agent'.status = Turn.status
    /\ agent'.assessment = IF Turn.step = "assessment" THEN "partial" ELSE agent.assessment
    /\ agent'.pc = IF Len(agent.trace) + 1 = Len(CallsOf(agent.input)) THEN "decide" ELSE "call"

LEMMA CallOverKeeps ==
    ASSUME AgentTypes, FollowsInv, ProgressInv, OutcomeInv, NEW ok \in BOOLEAN, CallOver(ok)
    PROVE  /\ agent'.pc \in {"call", "decide"} /\ Len(agent'.trace) = Len(agent.trace) + 1
           /\ agent'.trace \in Seq(Entries) /\ agent'.status \notin Ends
           /\ FollowsInv' /\ ProgressInv' /\ OutcomeInv'
<1> DEFINE n == Len(agent.trace) + 1
           N == Len(PlanFor(agent.input))
<1>1. Running /\ agent.pc \in {"call", "extract"}
  BY DEF CallOver, Running, AgentAt
<1>2. /\ Len(agent.trace) \in Nat
      /\ Turn \in TheCalls
      /\ PlanFor(agent.input)[n] = Step(Turn.step, Turn.tool)
      /\ Len(CallsOf(agent.input)) = N
  BY <1>1, TurnFacts
<1>3. /\ Turn.step = "claims" => Turn.tool = "narrative_evidence"
      /\ Turn.status \notin Ends
  BY <1>2, CallFacts
<1>4. agent.trace \in Seq(Entries)
  BY <1>1 DEF AgentTypes
<1>5. /\ agent'.trace \in Seq(Entries)
      /\ Len(agent'.trace) = n
      /\ \A i \in 1 .. Len(agent.trace) : agent'.trace[i] = agent.trace[i]
      /\ agent'.trace[n].step = Turn.step
      /\ agent'.trace[n].tool = Turn.tool
      /\ agent'.trace[n].ok = ok
  BY <1>2, <1>4, NotedFacts DEF CallOver
<1>6. N \in Nat /\ n <= N
  <2>1. N \in Nat
    BY PlanFacts
  <2> QED BY <2>1, <1>1, <1>2 DEF ProgressInv
<1>7. /\ agent'.pc = IF n = N THEN "decide" ELSE "call"
      /\ agent'.status = Turn.status /\ agent'.input = agent.input
      /\ agent'.plan = agent.plan /\ agent'.certificate = agent.certificate
  BY <1>2 DEF CallOver
<1>8. Running' /\ ~Decided' /\ ~Frozen' /\ ~Certified' /\ Well'
  BY <1>3, <1>7 DEF Running, AgentAt, Decided, Frozen, Certified, Well, Ends
<1>9. FollowsInv'
  <2>1. ASSUME NEW i \in 1 .. n
        PROVE  /\ PlanFor(agent.input)[i] = Step(agent'.trace[i].step, agent'.trace[i].tool)
               /\ ~agent'.trace[i].ok => agent'.trace[i].tool = "narrative_evidence"
    <3>1. CASE i = n
      BY <3>1, <1>2, <1>3, <1>5 DEF CallOver
    <3>2. CASE i # n
      <4>1. i \in 1 .. Len(agent.trace)
        BY <3>2, <1>2
      <4>2. Well
        BY <1>1 DEF Well, AgentTypes, Ends
      <4> QED BY <4>1, <4>2, <1>1, <1>5 DEF FollowsInv
    <3> QED BY <3>1, <3>2
  <2> HIDE DEF n
  <2> QED BY <2>1, <1>5, <1>6, <1>7 DEF FollowsInv
<1>10. ProgressInv'
  <2>1. CallsDone' => n = N
    BY <1>7, <1>8 DEF CallsDone
  <2>2. agent.plan = PlanFor(agent.input) /\ agent.certificate = << >>
    BY <1>1 DEF ProgressInv, Certified
  <2> HIDE DEF n
  <2>3. /\ agent'.pc \in {"call", "decide"}
        /\ agent'.pc = "call" => n < N
    BY <1>6, <1>7, n \in Nat, <1>2 DEF n
  <2> QED BY <2>1, <2>2, <2>3, <1>5, <1>6, <1>7, <1>8 DEF ProgressInv
<1>11. OutcomeInv'
  <2>1. agent'.assessment # "whole" /\ agent'.pc \in {"call", "decide"}
    BY <1>1, <1>7 DEF OutcomeInv, CallOver
  <2>2. agent'.status \notin Ends
    BY <1>3, <1>7
  <2> QED BY <2>1, <2>2, <1>8 DEF OutcomeInv, Ends
<1> QED BY <1>3, <1>5, <1>7, <1>9, <1>10, <1>11

\* The plan is made before anything is called.
LEMMA MakePlanKeeps ==
    ASSUME AgentInv, MakePlan
    PROVE  AgentInv'
<1>1. AgentTypes /\ FollowsInv /\ ProgressInv /\ AttemptsInv /\ OutcomeInv /\ KeptInv
  BY DEF AgentInv
<1>2. agent.pc = "plan" /\ kept' = kept /\ verdict' = verdict /\ logs' = logs
  BY DEF MakePlan, AgentAt
<1>3. Running /\ DOMAIN agent = AgentFields
  BY <1>1, <1>2 DEF AgentTypes, Running, AgentAt
<1>4. /\ DOMAIN agent' = AgentFields
      /\ agent'.how = agent.how /\ agent'.input = agent.input /\ agent'.pc = "call"
      /\ agent'.status = agent.status /\ agent'.plan = PlanFor(agent.input)
      /\ agent'.trace = agent.trace /\ agent'.attempt = agent.attempt
      /\ agent'.asked = agent.asked /\ agent'.extraction = agent.extraction
      /\ agent'.assessment = agent.assessment /\ agent'.decision = agent.decision
      /\ agent'.review = agent.review /\ agent'.cost = agent.cost
      /\ agent'.snapshot = agent.snapshot /\ agent'.certificate = agent.certificate
  BY <1>2, <1>3 DEF MakePlan, AgentAt, AgentFields
<1>5. Running'
  BY <1>2, <1>4 DEF Running, AgentAt
<1>6. KeptInv'
  BY <1>1, <1>2, <1>3, <1>4, RunKeepsKept
<1>7. AgentTypes'
  BY <1>1, <1>2, <1>3, <1>4, <1>5 DEF AgentTypes, Ends
<1>8. FollowsInv'
  BY <1>1, <1>2, <1>3, <1>4, <1>5 DEF AgentTypes, FollowsInv, Well, Ends
<1>9. ProgressInv'
  <2>1. agent.trace = << >> /\ agent.certificate = << >>
    BY <1>1, <1>2, <1>3 DEF ProgressInv, Certified
  <2>2. Len(agent.trace) = 0 /\ Len(PlanFor(agent.input)) \in Nat /\ Len(PlanFor(agent.input)) >= 5
    BY <2>1, PlanFacts
  <2> QED BY <2>1, <2>2, <1>2, <1>4 DEF ProgressInv, Decided, Certified, CallsDone
<1>10. AttemptsInv'
  BY <1>1, <1>2, <1>3, <1>4, <1>5 DEF AgentTypes, AttemptsInv
<1>11. OutcomeInv'
  BY <1>1, <1>2, <1>3, <1>4, <1>5 DEF AgentTypes, OutcomeInv, Well, Decided, Frozen, Doubt, Semantic, Output, Ends
<1> QED BY <1>6, <1>7, <1>8, <1>9, <1>10, <1>11 DEF AgentInv

\* A snapshot is frozen of a whole assessment.
LEMMA FreezeKeeps ==
    ASSUME AgentInv, Freeze
    PROVE  AgentInv'
<1>1. AgentTypes /\ FollowsInv /\ ProgressInv /\ AttemptsInv /\ OutcomeInv /\ KeptInv
  BY DEF AgentInv
<1>2. agent.pc = "freeze" /\ kept' = kept /\ verdict' = verdict /\ logs' = logs
  BY DEF Freeze, AgentAt
<1>3. Running /\ DOMAIN agent = AgentFields
  BY <1>1, <1>2 DEF AgentTypes, Running, AgentAt
<1>4. /\ DOMAIN agent' = AgentFields
      /\ agent'.how = agent.how /\ agent'.input = agent.input /\ agent'.pc = "certify"
      /\ agent'.status = agent.status /\ agent'.plan = agent.plan
      /\ agent'.trace = agent.trace /\ agent'.attempt = agent.attempt
      /\ agent'.asked = agent.asked /\ agent'.extraction = agent.extraction
      /\ agent'.assessment = agent.assessment /\ agent'.decision = agent.decision
      /\ agent'.review = agent.review /\ agent'.cost = agent.cost
      /\ agent'.snapshot = [input |-> FrozenInput(agent.input), output |-> Output(agent), release |-> release]
      /\ agent'.certificate = agent.certificate
  BY <1>2, <1>3 DEF Freeze, AgentAt, AgentFields
<1>5. Running'
  BY <1>2, <1>4 DEF Running, AgentAt
<1>6. KeptInv'
  BY <1>1, <1>2, <1>3, <1>4, RunKeepsKept
<1>7. AgentTypes'
  BY <1>1, <1>2, <1>3, <1>4, <1>5 DEF AgentTypes, Ends
<1>8. FollowsInv'
  BY <1>1, <1>2, <1>3, <1>4, <1>5 DEF AgentTypes, FollowsInv, Well, Ends
<1>9. ProgressInv'
  BY <1>1, <1>2, <1>3, <1>4, <1>5, PlanFacts DEF AgentTypes, ProgressInv, Well, Decided, Certified, CallsDone, Ends
<1>10. AttemptsInv'
  BY <1>1, <1>2, <1>3, <1>4, <1>5 DEF AgentTypes, AttemptsInv
<1>11. OutcomeInv'
  BY <1>1, <1>2, <1>3, <1>4, <1>5 DEF AgentTypes, OutcomeInv, Well, Decided, Frozen, Doubt, Semantic, Output, Ends
<1> QED BY <1>6, <1>7, <1>8, <1>9, <1>10, <1>11 DEF AgentInv

\* The certificate carries the trace, which is complete.
LEMMA CertifyKeeps ==
    ASSUME AgentInv, Certify
    PROVE  AgentInv'
<1>1. AgentTypes /\ FollowsInv /\ ProgressInv /\ AttemptsInv /\ OutcomeInv /\ KeptInv
  BY DEF AgentInv
<1>2. agent.pc = "certify" /\ kept' = kept /\ verdict' = verdict /\ logs' = logs
  BY DEF Certify, AgentAt
<1>3. Running /\ DOMAIN agent = AgentFields
  BY <1>1, <1>2 DEF AgentTypes, Running, AgentAt
<1>4. /\ DOMAIN agent' = AgentFields
      /\ agent'.how = agent.how /\ agent'.input = agent.input /\ agent'.pc = "finish"
      /\ agent'.status = "REFLECTING" /\ agent'.plan = agent.plan
      /\ agent'.trace = agent.trace /\ agent'.attempt = agent.attempt
      /\ agent'.asked = agent.asked /\ agent'.extraction = agent.extraction
      /\ agent'.assessment = agent.assessment /\ agent'.decision = agent.decision
      /\ agent'.review = agent.review /\ agent'.cost = agent.cost
      /\ agent'.snapshot = agent.snapshot /\ agent'.certificate = agent.trace
  BY <1>2, <1>3 DEF Certify, AgentAt, AgentFields
<1>5. Running'
  BY <1>2, <1>4 DEF Running, AgentAt
<1>6. KeptInv'
  BY <1>1, <1>2, <1>3, <1>4, RunKeepsKept
<1>7. AgentTypes'
  BY <1>1, <1>2, <1>3, <1>4, <1>5 DEF AgentTypes, Ends
<1>8. FollowsInv'
  BY <1>1, <1>2, <1>3, <1>4, <1>5 DEF AgentTypes, FollowsInv, Well, Ends
<1>9. ProgressInv'
  BY <1>1, <1>2, <1>3, <1>4, <1>5, PlanFacts DEF AgentTypes, ProgressInv, Well, Decided, Certified, CallsDone, Ends
<1>10. AttemptsInv'
  BY <1>1, <1>2, <1>3, <1>4, <1>5 DEF AgentTypes, AttemptsInv
<1>11. OutcomeInv'
  BY <1>1, <1>2, <1>3, <1>4, <1>5 DEF AgentTypes, OutcomeInv, Well, Decided, Frozen, Doubt, Semantic, Output, Ends
<1> QED BY <1>6, <1>7, <1>8, <1>9, <1>10, <1>11 DEF AgentInv

\* The provider was asked once more, and the call is over.
LEMMA AskedKeeps ==
    ASSUME AgentTypes, ProgressInv, AttemptsInv, agent.pc = "extract", NEW o \in Outcomes,
           agent'.asked = Append(agent.asked, o), logs' = Append(logs, o),
           agent'.pc \in {"call", "decide"}, Len(agent'.trace) = Len(agent.trace) + 1,
           agent'.input = agent.input
    PROVE  AttemptsInv' /\ agent'.asked \in Seq(Outcomes) /\ logs' \in Seq(Outcomes)
<1>1. /\ agent.asked \in Seq(Outcomes) /\ logs \in Seq(Outcomes) /\ logs = agent.asked
      /\ agent.input.pages /\ Len(agent.trace) = 2 /\ Len(agent.asked) <= MaxRetries
      /\ \A i \in 1 .. Len(agent.asked) : agent.asked[i] = "retryable"
  BY DEF AgentTypes, ProgressInv, AttemptsInv, Running, AgentAt
<1>2. /\ agent'.asked \in Seq(Outcomes) /\ Len(agent'.asked) = Len(agent.asked) + 1
      /\ Len(agent.asked) \in Nat
      /\ \A i \in 1 .. Len(agent.asked) : agent'.asked[i] = agent.asked[i]
  BY <1>1, OneMoreOutcome
<1>3. \A i \in 1 .. Len(agent'.asked) :
         i < Len(agent'.asked) => agent'.asked[i] = "retryable"
  BY <1>1, <1>2
<1>4. Len(agent'.asked) <= MaxRetries + 1 /\ Len(agent'.trace) = 3 /\ agent'.input.pages
  BY <1>1, <1>2, AgentAssumption
<1>5. logs' = agent'.asked
  BY <1>1
<1> QED BY <1>1, <1>2, <1>3, <1>4, <1>5 DEF AttemptsInv

\* A call that is not the narrative's asks nobody.
LEMMA CallBarring ==
    ASSUME AttemptsInv, Running, Len(agent.trace) \in Nat, agent.pc = "call",
           agent.asked \in Seq(Outcomes), logs \in Seq(Outcomes),
           ~(agent.input.pages /\ Len(agent.trace) = 2),
           Len(agent'.trace) = Len(agent.trace) + 1, agent'.asked = agent.asked,
           agent'.input = agent.input, logs' = logs, agent'.pc # "extract"
    PROVE  AttemptsInv' /\ agent'.asked \in Seq(Outcomes) /\ logs' \in Seq(Outcomes)
<1>1. /\ Len(agent.asked) <= MaxRetries + 1
      /\ \A i \in 1 .. Len(agent.asked) : i < Len(agent.asked) => agent.asked[i] = "retryable"
  BY DEF AttemptsInv
<1>2. ~agent.input.pages \/ Len(agent.trace) <= 2 => agent.asked = << >>
  BY DEF AttemptsInv
<1>3. agent.input.pages /\ Len(agent.trace) >= 3 => logs = agent.asked
  BY DEF AttemptsInv
<1>4. Len(agent'.trace) <= 2 => Len(agent.trace) <= 2
  OBVIOUS
<1>5. ASSUME agent.input.pages, Len(agent'.trace) >= 3 PROVE Len(agent.trace) >= 3
  <2>1. Len(agent.trace) # 2
    BY <1>5
  <2>2. \A k \in Nat : k + 1 >= 3 /\ k # 2 => k >= 3
    OBVIOUS
  <2>3. Len(agent.trace) + 1 >= 3
    BY <1>5
  <2> QED BY <2>1, <2>2, <2>3
<1> QED BY <1>1, <1>2, <1>3, <1>4, <1>5 DEF AttemptsInv

\* A tool answers.
LEMMA CallToolKeeps ==
    ASSUME AgentInv, CallTool
    PROVE  AgentInv'
<1>1. AgentTypes /\ FollowsInv /\ ProgressInv /\ AttemptsInv /\ OutcomeInv /\ KeptInv
  BY DEF AgentInv
<1>2. agent.pc = "call" /\ Turn.step # "claims" /\ kept' = kept /\ verdict' = verdict /\ logs' = logs
  BY DEF CallTool, AgentAt
<1>3. Running /\ DOMAIN agent = AgentFields
  BY <1>1, <1>2 DEF AgentTypes, Running, AgentAt
<1>4. /\ DOMAIN agent' = AgentFields
      /\ agent'.how = agent.how /\ agent'.input = agent.input
      /\ agent'.pc = (IF Len(agent.trace) + 1 = Len(CallsOf(agent.input)) THEN "decide" ELSE "call")
      /\ agent'.status = Turn.status /\ agent'.plan = agent.plan
      /\ agent'.trace = Noted(Turn, TRUE) /\ agent'.attempt = 0
      /\ agent'.asked = agent.asked /\ agent'.extraction = agent.extraction
      /\ agent'.assessment = (IF Turn.step = "assessment" THEN "partial" ELSE agent.assessment)
      /\ agent'.decision = agent.decision /\ agent'.review = agent.review
      /\ agent'.cost = agent.cost /\ agent'.snapshot = agent.snapshot
      /\ agent'.certificate = agent.certificate
  BY <1>2, <1>3 DEF CallTool, AgentAt, Called, AgentFields
<1>t. agent.pc = "extract" => Turn.step = "claims"
  BY <1>1, TurnFacts
<1>5. CallOver(TRUE)
  BY <1>2, <1>3, <1>4, <1>t DEF CallOver
<1>6. KeptInv'
  BY <1>1, <1>2, <1>3, <1>4, RunKeepsKept
<1>7. /\ agent'.pc \in {"call", "decide"} /\ Len(agent'.trace) = Len(agent.trace) + 1
      /\ agent'.trace \in Seq(Entries) /\ agent'.status \notin Ends
      /\ FollowsInv' /\ ProgressInv' /\ OutcomeInv'
  BY <1>1, <1>5, CallOverKeeps
<1>8. AttemptsInv' /\ agent'.asked \in Seq(Outcomes) /\ logs' \in Seq(Outcomes)
  <2>1. /\ agent.asked \in Seq(Outcomes) /\ logs \in Seq(Outcomes) /\ Len(agent.trace) \in Nat
        /\ agent'.asked = agent.asked /\ agent'.input = agent.input
    BY <1>1, <1>3, <1>4, LenProperties DEF AgentTypes
  <2>2. ~(agent.input.pages /\ Len(agent.trace) = 2)
    BY <1>1, <1>2, TurnFacts
  <2>3. Len(agent'.trace) = Len(agent.trace) + 1
    BY <1>7
  <2> QED BY <2>1, <2>2, <2>3, <1>1, <1>2, <1>3, <1>7, CallBarring
<1>9. AgentTypes'
  BY <1>1, <1>3, <1>4, <1>7, <1>8 DEF AgentTypes
<1> QED BY <1>6, <1>7, <1>8, <1>9 DEF AgentInv

\* The narrative comes back.
LEMMA AnsweredKeeps ==
    ASSUME AgentInv, NEW result, Answered(result)
    PROVE  AgentInv'
<1>1. AgentTypes /\ FollowsInv /\ ProgressInv /\ AttemptsInv /\ OutcomeInv /\ KeptInv
  BY DEF AgentInv
<1>2. agent.pc = "extract" /\ kept' = kept /\ verdict' = verdict /\ logs' = Append(logs, "ok")
  BY DEF Answered, AgentAt, Record
<1>3. Running /\ DOMAIN agent = AgentFields
  BY <1>1, <1>2 DEF AgentTypes, Running, AgentAt
<1>4. /\ DOMAIN agent' = AgentFields
      /\ agent'.how = agent.how /\ agent'.input = agent.input
      /\ agent'.pc = (IF Len(agent.trace) + 1 = Len(CallsOf(agent.input)) THEN "decide" ELSE "call")
      /\ agent'.status = Turn.status /\ agent'.plan = agent.plan
      /\ agent'.trace = Noted(Turn, TRUE) /\ agent'.attempt = 0
      /\ agent'.asked = Append(agent.asked, "ok") /\ agent'.extraction = result
      /\ agent'.assessment = (IF Turn.step = "assessment" THEN "partial" ELSE agent.assessment)
      /\ agent'.decision = agent.decision /\ agent'.review = agent.review
      /\ agent'.cost = agent.cost /\ agent'.snapshot = agent.snapshot
      /\ agent'.certificate = agent.certificate
  BY <1>2, <1>3 DEF Answered, AgentAt, Record, Called, AgentFields
<1>t. agent.pc = "extract" => Turn.step = "claims"
  BY <1>1, TurnFacts
<1>5. CallOver(TRUE)
  BY <1>2, <1>3, <1>4, <1>t DEF CallOver
<1>6. KeptInv'
  BY <1>1, <1>2, <1>3, <1>4, RunKeepsKept
<1>7. /\ agent'.pc \in {"call", "decide"} /\ Len(agent'.trace) = Len(agent.trace) + 1
      /\ agent'.trace \in Seq(Entries) /\ agent'.status \notin Ends
      /\ FollowsInv' /\ ProgressInv' /\ OutcomeInv'
  BY <1>1, <1>5, CallOverKeeps
<1>8. AttemptsInv' /\ agent'.asked \in Seq(Outcomes) /\ logs' \in Seq(Outcomes)
  BY <1>1, <1>2, <1>4, <1>7, AskedKeeps DEF Outcomes
<1>9. AgentTypes'
  BY <1>1, <1>3, <1>4, <1>7, <1>8 DEF AgentTypes
<1> QED BY <1>6, <1>7, <1>8, <1>9 DEF AgentInv

\* The provider gives up on an answer that will not do.
LEMMA GiveUpKeeps ==
    ASSUME AgentInv, NEW o, GiveUp(o)
    PROVE  AgentInv'
<1>1. AgentTypes /\ FollowsInv /\ ProgressInv /\ AttemptsInv /\ OutcomeInv /\ KeptInv
  BY DEF AgentInv
<1>2. agent.pc = "extract" /\ o \in {"invalid", "fatal"} /\ kept' = kept /\ verdict' = verdict /\ logs' = Append(logs, o)
  BY DEF GiveUp, AgentAt, Record
<1>3. Running /\ DOMAIN agent = AgentFields
  BY <1>1, <1>2 DEF AgentTypes, Running, AgentAt
<1>4. /\ DOMAIN agent' = AgentFields
      /\ agent'.how = agent.how /\ agent'.input = agent.input
      /\ agent'.pc = (IF Len(agent.trace) + 1 = Len(CallsOf(agent.input)) THEN "decide" ELSE "call")
      /\ agent'.status = Turn.status /\ agent'.plan = agent.plan
      /\ agent'.trace = Noted(Turn, FALSE) /\ agent'.attempt = 0
      /\ agent'.asked = Append(agent.asked, o) /\ agent'.extraction = "failed"
      /\ agent'.assessment = (IF Turn.step = "assessment" THEN "partial" ELSE agent.assessment)
      /\ agent'.decision = agent.decision /\ agent'.review = agent.review
      /\ agent'.cost = agent.cost /\ agent'.snapshot = agent.snapshot
      /\ agent'.certificate = agent.certificate
  BY <1>2, <1>3 DEF GiveUp, AgentAt, Record, Called, Unavailable, AgentFields
<1>t. agent.pc = "extract" => Turn.step = "claims"
  BY <1>1, TurnFacts
<1>5. CallOver(FALSE)
  BY <1>2, <1>3, <1>4, <1>t DEF CallOver
<1>6. KeptInv'
  BY <1>1, <1>2, <1>3, <1>4, RunKeepsKept
<1>7. /\ agent'.pc \in {"call", "decide"} /\ Len(agent'.trace) = Len(agent.trace) + 1
      /\ agent'.trace \in Seq(Entries) /\ agent'.status \notin Ends
      /\ FollowsInv' /\ ProgressInv' /\ OutcomeInv'
  BY <1>1, <1>5, CallOverKeeps
<1>8. AttemptsInv' /\ agent'.asked \in Seq(Outcomes) /\ logs' \in Seq(Outcomes)
  BY <1>1, <1>2, <1>4, <1>7, AskedKeeps DEF Outcomes
<1>9. AgentTypes'
  BY <1>1, <1>3, <1>4, <1>7, <1>8 DEF AgentTypes
<1> QED BY <1>6, <1>7, <1>8, <1>9 DEF AgentInv

\* The attempts are used up.
LEMMA RetryLastKeeps ==
    ASSUME AgentInv, Retry, ~(agent.attempt <= MaxRetries)
    PROVE  AgentInv'
<1>1. AgentTypes /\ FollowsInv /\ ProgressInv /\ AttemptsInv /\ OutcomeInv /\ KeptInv
  BY DEF AgentInv
<1>2. agent.pc = "extract" /\ kept' = kept /\ verdict' = verdict /\ logs' = Append(logs, "retryable")
  BY DEF Retry, AgentAt, Record
<1>3. Running /\ DOMAIN agent = AgentFields
  BY <1>1, <1>2 DEF AgentTypes, Running, AgentAt
<1>4. /\ DOMAIN agent' = AgentFields
      /\ agent'.how = agent.how /\ agent'.input = agent.input
      /\ agent'.pc = (IF Len(agent.trace) + 1 = Len(CallsOf(agent.input)) THEN "decide" ELSE "call")
      /\ agent'.status = Turn.status /\ agent'.plan = agent.plan
      /\ agent'.trace = Noted(Turn, FALSE) /\ agent'.attempt = 0
      /\ agent'.asked = Append(agent.asked, "retryable") /\ agent'.extraction = "failed"
      /\ agent'.assessment = (IF Turn.step = "assessment" THEN "partial" ELSE agent.assessment)
      /\ agent'.decision = agent.decision /\ agent'.review = agent.review
      /\ agent'.cost = agent.cost /\ agent'.snapshot = agent.snapshot
      /\ agent'.certificate = agent.certificate
  BY <1>2, <1>3 DEF Retry, AgentAt, Record, Called, Unavailable, AgentFields
<1>t. agent.pc = "extract" => Turn.step = "claims"
  BY <1>1, TurnFacts
<1>5. CallOver(FALSE)
  BY <1>2, <1>3, <1>4, <1>t DEF CallOver
<1>6. KeptInv'
  BY <1>1, <1>2, <1>3, <1>4, RunKeepsKept
<1>7. /\ agent'.pc \in {"call", "decide"} /\ Len(agent'.trace) = Len(agent.trace) + 1
      /\ agent'.trace \in Seq(Entries) /\ agent'.status \notin Ends
      /\ FollowsInv' /\ ProgressInv' /\ OutcomeInv'
  BY <1>1, <1>5, CallOverKeeps
<1>8. AttemptsInv' /\ agent'.asked \in Seq(Outcomes) /\ logs' \in Seq(Outcomes)
  BY <1>1, <1>2, <1>4, <1>7, AskedKeeps DEF Outcomes
<1>9. AgentTypes'
  BY <1>1, <1>3, <1>4, <1>7, <1>8 DEF AgentTypes
<1> QED BY <1>6, <1>7, <1>8, <1>9 DEF AgentInv

\* Without a key nothing is asked.
LEMMA KeylessKeeps ==
    ASSUME AgentInv, Keyless
    PROVE  AgentInv'
<1>1. AgentTypes /\ FollowsInv /\ ProgressInv /\ AttemptsInv /\ OutcomeInv /\ KeptInv
  BY DEF AgentInv
<1>2. agent.pc = "extract" /\ kept' = kept /\ verdict' = verdict /\ logs' = logs
  BY DEF Keyless, AgentAt
<1>3. Running /\ DOMAIN agent = AgentFields
  BY <1>1, <1>2 DEF AgentTypes, Running, AgentAt
<1>4. /\ DOMAIN agent' = AgentFields
      /\ agent'.how = agent.how /\ agent'.input = agent.input
      /\ agent'.pc = (IF Len(agent.trace) + 1 = Len(CallsOf(agent.input)) THEN "decide" ELSE "call")
      /\ agent'.status = Turn.status /\ agent'.plan = agent.plan
      /\ agent'.trace = Noted(Turn, FALSE) /\ agent'.attempt = 0
      /\ agent'.asked = agent.asked /\ agent'.extraction = "failed"
      /\ agent'.assessment = (IF Turn.step = "assessment" THEN "partial" ELSE agent.assessment)
      /\ agent'.decision = agent.decision /\ agent'.review = agent.review
      /\ agent'.cost = agent.cost /\ agent'.snapshot = agent.snapshot
      /\ agent'.certificate = agent.certificate
  BY <1>2, <1>3 DEF Keyless, AgentAt, Called, Unavailable, AgentFields
<1>t. agent.pc = "extract" => Turn.step = "claims"
  BY <1>1, TurnFacts
<1>5. CallOver(FALSE)
  BY <1>2, <1>3, <1>4, <1>t DEF CallOver
<1>6. KeptInv'
  BY <1>1, <1>2, <1>3, <1>4, RunKeepsKept
<1>7. /\ agent'.pc \in {"call", "decide"} /\ Len(agent'.trace) = Len(agent.trace) + 1
      /\ agent'.trace \in Seq(Entries) /\ agent'.status \notin Ends
      /\ FollowsInv' /\ ProgressInv' /\ OutcomeInv'
  BY <1>1, <1>5, CallOverKeeps
<1>8. AttemptsInv' /\ agent'.asked \in Seq(Outcomes) /\ logs' \in Seq(Outcomes)
  <2>1. /\ agent.asked \in Seq(Outcomes) /\ logs \in Seq(Outcomes)
        /\ agent'.asked = agent.asked /\ agent'.input = agent.input
    BY <1>1, <1>3, <1>4 DEF AgentTypes
  <2>2. agent.input.pages /\ Len(agent.trace) = 2
    BY <1>1, <1>2, <1>3 DEF ProgressInv
  <2> QED BY <2>1, <2>2, <1>1, <1>2, <1>3, <1>7, AgentAssumption DEF AttemptsInv
<1>9. AgentTypes'
  BY <1>1, <1>3, <1>4, <1>7, <1>8 DEF AgentTypes
<1> QED BY <1>6, <1>7, <1>8, <1>9 DEF AgentInv

\* The decisions there are.
LEMMA Decisions ==
    ASSUME NEW e, NEW d
    PROVE  DecisionOn(e, d) \in {"PASS", "FLAG", "REVIEW", "ABSTAIN"}
BY DEF DecisionOn

\* Whatever is raised between the calls ends the run.
LEMMA RaiseKeeps ==
    ASSUME AgentInv, Raise
    PROVE  AgentInv'
<1>1. AgentTypes /\ FollowsInv /\ ProgressInv /\ AttemptsInv /\ OutcomeInv /\ KeptInv
  BY DEF AgentInv
<1>2. agent.pc \in {"plan", "decide", "freeze", "certify", "finish"} /\ kept' = kept /\ verdict' = verdict /\ logs' = logs
  BY DEF Raise
<1>3. Running /\ DOMAIN agent = AgentFields
  BY <1>1, <1>2 DEF AgentTypes, Running, AgentAt
<1>4. /\ DOMAIN agent' = AgentFields
      /\ agent'.how = agent.how /\ agent'.input = agent.input /\ agent'.pc = "ended"
      /\ agent'.status = "FAILED" /\ agent'.plan = agent.plan /\ agent'.trace = agent.trace
      /\ agent'.attempt = agent.attempt /\ agent'.asked = agent.asked
      /\ agent'.extraction = agent.extraction /\ agent'.assessment = agent.assessment
      /\ agent'.decision = agent.decision /\ agent'.review = agent.review
      /\ agent'.cost = agent.cost /\ agent'.snapshot = agent.snapshot
      /\ agent'.certificate = agent.certificate
  BY <1>2, <1>3 DEF Raise, Failed, AgentFields
<1>5. Running'
  BY <1>2, <1>4 DEF Running, AgentAt
<1>6. KeptInv'
  BY <1>1, <1>2, <1>3, <1>4, RunKeepsKept
<1>7. AgentTypes'
  BY <1>1, <1>2, <1>3, <1>4, <1>5 DEF AgentTypes, Ends
<1>8. FollowsInv'
  BY <1>1, <1>2, <1>3, <1>4, <1>5 DEF AgentTypes, FollowsInv, Well, Ends
<1>9. ProgressInv'
  BY <1>1, <1>2, <1>3, <1>4, <1>5, PlanFacts DEF AgentTypes, ProgressInv, Well, Decided, Certified, CallsDone, Ends
<1>10. AttemptsInv'
  BY <1>1, <1>2, <1>3, <1>4, <1>5 DEF AgentTypes, AttemptsInv
<1>11. OutcomeInv'
  BY <1>1, <1>2, <1>3, <1>4, <1>5 DEF AgentTypes, OutcomeInv, Well, Decided, Frozen, Doubt, Semantic, Output, Ends
<1> QED BY <1>6, <1>7, <1>8, <1>9, <1>10, <1>11 DEF AgentInv

\* A tool that raises ends the run.
LEMMA CallFailsKeeps ==
    ASSUME AgentInv, CallFails
    PROVE  AgentInv'
<1>1. AgentTypes /\ FollowsInv /\ ProgressInv /\ AttemptsInv /\ OutcomeInv /\ KeptInv
  BY DEF AgentInv
<1>2. agent.pc = "call" /\ Turn.step # "claims" /\ kept' = kept /\ verdict' = verdict /\ logs' = logs
  BY DEF CallFails, AgentAt
<1>3. Running /\ DOMAIN agent = AgentFields
  BY <1>1, <1>2 DEF AgentTypes, Running, AgentAt
<1>4. /\ DOMAIN agent' = AgentFields
      /\ agent'.how = agent.how /\ agent'.input = agent.input /\ agent'.pc = "ended"
      /\ agent'.status = "FAILED" /\ agent'.plan = agent.plan
      /\ agent'.trace = Noted(Turn, FALSE) /\ agent'.attempt = agent.attempt
      /\ agent'.asked = agent.asked /\ agent'.extraction = agent.extraction
      /\ agent'.assessment = agent.assessment /\ agent'.decision = agent.decision
      /\ agent'.review = agent.review /\ agent'.cost = agent.cost
      /\ agent'.snapshot = agent.snapshot /\ agent'.certificate = agent.certificate
  BY <1>2, <1>3 DEF CallFails, AgentAt, Failed, AgentFields
<1>5. Running'
  BY <1>2, <1>4 DEF Running, AgentAt
<1>6. KeptInv'
  BY <1>1, <1>2, <1>3, <1>4, RunKeepsKept
<1>7. AgentTypes'
  <2>1. /\ agent.trace \in Seq(Entries) /\ Turn \in TheCalls
    BY <1>1, <1>2, <1>3, TurnFacts DEF AgentTypes
  <2>n. /\ Noted(Turn, FALSE) \in Seq(Entries)
        /\ Len(Noted(Turn, FALSE)) = Len(agent.trace) + 1
        /\ Len(agent.trace) \in Nat
        /\ \A i \in 1 .. Len(agent.trace) : Noted(Turn, FALSE)[i] = agent.trace[i]
        /\ Noted(Turn, FALSE)[Len(agent.trace) + 1].step = Turn.step
        /\ Noted(Turn, FALSE)[Len(agent.trace) + 1].tool = Turn.tool
    <3>1. FALSE \in BOOLEAN
      OBVIOUS
    <3> QED BY <2>1, <3>1, NotedFacts, Zenon
  <2>2. /\ agent'.trace \in Seq(Entries) /\ Len(agent'.trace) = Len(agent.trace) + 1
        /\ Len(agent.trace) \in Nat
        /\ \A i \in 1 .. Len(agent.trace) : agent'.trace[i] = agent.trace[i]
        /\ agent'.trace[Len(agent.trace) + 1].step = Turn.step
        /\ agent'.trace[Len(agent.trace) + 1].tool = Turn.tool
    BY <2>n, <1>4
  <2> QED BY <2>2, <1>1, <1>2, <1>3, <1>4, <1>5 DEF AgentTypes, Ends
<1>8. FollowsInv'
  <2>1. /\ agent.trace \in Seq(Entries) /\ Turn \in TheCalls
    BY <1>1, <1>2, <1>3, TurnFacts DEF AgentTypes
  <2>n. /\ Noted(Turn, FALSE) \in Seq(Entries)
        /\ Len(Noted(Turn, FALSE)) = Len(agent.trace) + 1
        /\ Len(agent.trace) \in Nat
        /\ \A i \in 1 .. Len(agent.trace) : Noted(Turn, FALSE)[i] = agent.trace[i]
        /\ Noted(Turn, FALSE)[Len(agent.trace) + 1].step = Turn.step
        /\ Noted(Turn, FALSE)[Len(agent.trace) + 1].tool = Turn.tool
    <3>1. FALSE \in BOOLEAN
      OBVIOUS
    <3> QED BY <2>1, <3>1, NotedFacts, Zenon
  <2>2. /\ agent'.trace \in Seq(Entries) /\ Len(agent'.trace) = Len(agent.trace) + 1
        /\ Len(agent.trace) \in Nat
        /\ \A i \in 1 .. Len(agent.trace) : agent'.trace[i] = agent.trace[i]
        /\ agent'.trace[Len(agent.trace) + 1].step = Turn.step
        /\ agent'.trace[Len(agent.trace) + 1].tool = Turn.tool
    BY <2>n, <1>4
  <2>3. /\ PlanFor(agent.input)[Len(agent.trace) + 1] = Step(Turn.step, Turn.tool)
        /\ Len(agent.trace) < Len(PlanFor(agent.input))
    BY <1>1, <1>2, <1>3, TurnFacts DEF ProgressInv
  <2>4. ~Well'
    BY <1>4 DEF Well
  <2>5. \A i \in 1 .. Len(agent.trace) + 1 : i \in 1 .. Len(agent.trace) \/ i = Len(agent.trace) + 1
    BY <2>2
  <2>6. Len(PlanFor(agent.input)) \in Nat
    BY PlanFacts
  <2>7. \A i \in 1 .. Len(agent'.trace) :
           PlanFor(agent'.input)[i] = Step(agent'.trace[i].step, agent'.trace[i].tool)
    BY <2>2, <2>3, <2>5, <1>1, <1>3, <1>4 DEF FollowsInv
  <2>8. \A j, k \in Nat : j < k => j + 1 <= k
    OBVIOUS
  <2>9. Len(agent'.trace) <= Len(PlanFor(agent'.input))
    BY <2>2, <2>3, <2>6, <2>8, <1>4
  <2> QED BY <2>4, <2>7, <2>9 DEF FollowsInv
<1>9. ProgressInv'
  BY <1>1, <1>2, <1>3, <1>4, <1>5, PlanFacts DEF AgentTypes, ProgressInv, Well, Decided, Certified, CallsDone, Ends
<1>10. AttemptsInv'
  <2>1. /\ agent.trace \in Seq(Entries) /\ Turn \in TheCalls
    BY <1>1, <1>2, <1>3, TurnFacts DEF AgentTypes
  <2>n. /\ Noted(Turn, FALSE) \in Seq(Entries)
        /\ Len(Noted(Turn, FALSE)) = Len(agent.trace) + 1
        /\ Len(agent.trace) \in Nat
        /\ \A i \in 1 .. Len(agent.trace) : Noted(Turn, FALSE)[i] = agent.trace[i]
        /\ Noted(Turn, FALSE)[Len(agent.trace) + 1].step = Turn.step
        /\ Noted(Turn, FALSE)[Len(agent.trace) + 1].tool = Turn.tool
    <3>1. FALSE \in BOOLEAN
      OBVIOUS
    <3> QED BY <2>1, <3>1, NotedFacts, Zenon
  <2>2. /\ agent'.trace \in Seq(Entries) /\ Len(agent'.trace) = Len(agent.trace) + 1
        /\ Len(agent.trace) \in Nat
        /\ \A i \in 1 .. Len(agent.trace) : agent'.trace[i] = agent.trace[i]
        /\ agent'.trace[Len(agent.trace) + 1].step = Turn.step
        /\ agent'.trace[Len(agent.trace) + 1].tool = Turn.tool
    BY <2>n, <1>4
  <2>3. ~(agent.input.pages /\ Len(agent.trace) = 2)
    BY <1>1, <1>2, TurnFacts
  <2>4. agent.asked \in Seq(Outcomes) /\ logs \in Seq(Outcomes)
    BY <1>1, <1>3 DEF AgentTypes
  <2> QED BY <2>2, <2>3, <2>4, <1>1, <1>2, <1>3, <1>4, CallBarring
<1>11. OutcomeInv'
  BY <1>1, <1>2, <1>3, <1>4, <1>5 DEF AgentTypes, OutcomeInv, Well, Decided, Frozen, Doubt, Semantic, Output, Ends
<1> QED BY <1>6, <1>7, <1>8, <1>9, <1>10, <1>11 DEF AgentInv

\* The log begins anew with the extraction.
LEMMA ExtractKeeps ==
    ASSUME AgentInv, Extract
    PROVE  AgentInv'
<1>1. AgentTypes /\ FollowsInv /\ ProgressInv /\ AttemptsInv /\ OutcomeInv /\ KeptInv
  BY DEF AgentInv
<1>2. agent.pc = "call" /\ Turn.step = "claims" /\ kept' = kept /\ verdict' = verdict /\ logs' = << >>
  BY DEF Extract, AgentAt
<1>3. Running /\ DOMAIN agent = AgentFields
  BY <1>1, <1>2 DEF AgentTypes, Running, AgentAt
<1>4. /\ DOMAIN agent' = AgentFields
      /\ agent'.how = agent.how /\ agent'.input = agent.input /\ agent'.pc = "extract"
      /\ agent'.status = agent.status /\ agent'.plan = agent.plan
      /\ agent'.trace = agent.trace /\ agent'.attempt = 1 /\ agent'.asked = agent.asked
      /\ agent'.extraction = agent.extraction /\ agent'.assessment = agent.assessment
      /\ agent'.decision = agent.decision /\ agent'.review = agent.review
      /\ agent'.cost = agent.cost /\ agent'.snapshot = agent.snapshot
      /\ agent'.certificate = agent.certificate
  BY <1>2, <1>3 DEF Extract, AgentAt, AgentFields
<1>5. Running'
  BY <1>2, <1>4 DEF Running, AgentAt
<1>6. KeptInv'
  BY <1>1, <1>2, <1>3, <1>4, RunKeepsKept
<1>7. AgentTypes'
  BY <1>1, <1>2, <1>3, <1>4, <1>5 DEF AgentTypes, Ends
<1>8. FollowsInv'
  BY <1>1, <1>2, <1>3, <1>4, <1>5 DEF AgentTypes, FollowsInv, Well, Ends
<1>9. ProgressInv'
  <2>1. agent.input.pages /\ Len(agent.trace) = 2
    BY <1>1, <1>2, TurnFacts
  <2> QED BY <2>1, <1>1, <1>2, <1>3, <1>4 DEF ProgressInv, Decided, Certified, CallsDone
<1>10. AttemptsInv'
  <2>1. agent.input.pages /\ Len(agent.trace) = 2
    BY <1>1, <1>2, TurnFacts
  <2>2. agent.asked = << >>
    BY <2>1, <1>1, <1>2, <1>3 DEF AttemptsInv
  <2>3. Len(agent.asked) = 0 /\ MaxRetries \in Nat
    BY <2>2, AgentAssumption
  <2> QED BY <2>1, <2>2, <2>3, <1>2, <1>4 DEF AttemptsInv
<1>11. OutcomeInv'
  BY <1>1, <1>2, <1>3, <1>4, <1>5 DEF AgentTypes, OutcomeInv, Well, Decided, Frozen, Doubt, Semantic, Output, Ends
<1> QED BY <1>6, <1>7, <1>8, <1>9, <1>10, <1>11 DEF AgentInv

\* It is asked again.
LEMMA RetryAgainKeeps ==
    ASSUME AgentInv, Retry, agent.attempt <= MaxRetries
    PROVE  AgentInv'
<1>1. AgentTypes /\ FollowsInv /\ ProgressInv /\ AttemptsInv /\ OutcomeInv /\ KeptInv
  BY DEF AgentInv
<1>2. agent.pc = "extract" /\ kept' = kept /\ verdict' = verdict /\ logs' = Append(logs, "retryable")
  BY DEF Retry, AgentAt, Record
<1>3. Running /\ DOMAIN agent = AgentFields
  BY <1>1, <1>2 DEF AgentTypes, Running, AgentAt
<1>4. /\ DOMAIN agent' = AgentFields
      /\ agent'.how = agent.how /\ agent'.input = agent.input /\ agent'.pc = agent.pc
      /\ agent'.status = agent.status /\ agent'.plan = agent.plan
      /\ agent'.trace = agent.trace /\ agent'.attempt = agent.attempt + 1
      /\ agent'.asked = Append(agent.asked, "retryable")
      /\ agent'.extraction = agent.extraction /\ agent'.assessment = agent.assessment
      /\ agent'.decision = agent.decision /\ agent'.review = agent.review
      /\ agent'.cost = agent.cost /\ agent'.snapshot = agent.snapshot
      /\ agent'.certificate = agent.certificate
  BY <1>2, <1>3 DEF Retry, AgentAt, Record, AgentFields
<1>5. Running'
  BY <1>2, <1>4 DEF Running, AgentAt
<1>6. KeptInv'
  BY <1>1, <1>2, <1>3, <1>4, RunKeepsKept
<1>7. AgentTypes'
  <2>1. Append(agent.asked, "retryable") \in Seq(Outcomes) /\ Append(logs, "retryable") \in Seq(Outcomes)
    BY <1>1, <1>3, OneMoreOutcome DEF AgentTypes, Outcomes
  <2> QED BY <2>1, <1>1, <1>2, <1>3, <1>4, <1>5 DEF AgentTypes
<1>8. FollowsInv'
  BY <1>1, <1>2, <1>3, <1>4, <1>5 DEF AgentTypes, FollowsInv, Well, Ends
<1>9. ProgressInv'
  BY <1>1, <1>2, <1>3, <1>4, <1>5, PlanFacts DEF AgentTypes, ProgressInv, Well, Decided, Certified, CallsDone, Ends
<1>10. AttemptsInv'
  <2>1. /\ agent.asked \in Seq(Outcomes) /\ agent.attempt = Len(agent.asked) + 1
        /\ logs = agent.asked /\ agent.input.pages /\ Len(agent.trace) = 2
        /\ \A i \in 1 .. Len(agent.asked) : agent.asked[i] = "retryable"
    BY <1>1, <1>2, <1>3 DEF AgentTypes, AttemptsInv, ProgressInv
  <2>2. /\ Len(agent'.asked) = Len(agent.asked) + 1 /\ Len(agent.asked) \in Nat
        /\ \A i \in 1 .. Len(agent.asked) : agent'.asked[i] = agent.asked[i]
        /\ agent'.asked[Len(agent.asked) + 1] = "retryable"
    BY <2>1, <1>4, OneMoreOutcome DEF Outcomes
  <2>3. \A i \in 1 .. Len(agent.asked) + 1 : i \in 1 .. Len(agent.asked) \/ i = Len(agent.asked) + 1
    BY <2>2
  <2>4. \A i \in 1 .. Len(agent'.asked) : agent'.asked[i] = "retryable"
    BY <2>1, <2>2, <2>3
  <2>5. Len(agent'.asked) <= MaxRetries
    BY <2>1, <2>2
  <2>6. Len(agent'.asked) <= MaxRetries + 1
    BY <2>2, <2>5, AgentAssumption
  <2>7. agent'.attempt = Len(agent'.asked) + 1 /\ logs' = agent'.asked
    BY <2>1, <2>2, <1>2, <1>4
  <2>8. agent'.input.pages /\ agent'.pc = "extract" /\ Len(agent'.trace) = 2
    BY <2>1, <1>2, <1>4, Zenon
  <2> QED BY <2>4, <2>5, <2>6, <2>7, <2>8 DEF AttemptsInv
<1>11. OutcomeInv'
  BY <1>1, <1>2, <1>3, <1>4, <1>5 DEF AgentTypes, OutcomeInv, Well, Decided, Frozen, Doubt, Semantic, Output, Ends
<1> QED BY <1>6, <1>7, <1>8, <1>9, <1>10, <1>11 DEF AgentInv

\* The decision rests on the doubts of its own run.
LEMMA DecideKeeps ==
    ASSUME AgentInv, Decide
    PROVE  AgentInv'
<1>1. AgentTypes /\ FollowsInv /\ ProgressInv /\ AttemptsInv /\ OutcomeInv /\ KeptInv
  BY DEF AgentInv
<1>2. agent.pc = "decide" /\ kept' = kept /\ verdict' = verdict /\ logs' = logs
  BY DEF Decide, AgentAt
<1>3. Running /\ DOMAIN agent = AgentFields
  BY <1>1, <1>2 DEF AgentTypes, Running, AgentAt
<1>4. /\ DOMAIN agent' = AgentFields
      /\ agent'.how = agent.how /\ agent'.input = agent.input /\ agent'.pc = "freeze"
      /\ agent'.status = agent.status /\ agent'.plan = agent.plan
      /\ agent'.trace = agent.trace /\ agent'.attempt = agent.attempt
      /\ agent'.asked = agent.asked /\ agent'.extraction = agent.extraction
      /\ agent'.assessment = "whole"
      /\ agent'.decision = DecisionOn(agent.input.evidence, Doubt)
      /\ agent'.review = (Doubt \/ agent.input.evidence = "unproven")
      /\ agent'.cost = Cost(logs) /\ agent'.snapshot = agent.snapshot
      /\ agent'.certificate = agent.certificate
  BY <1>2, <1>3 DEF Decide, AgentAt, Doubt, AgentFields
<1>5. Running'
  BY <1>2, <1>4 DEF Running, AgentAt
<1>6. KeptInv'
  BY <1>1, <1>2, <1>3, <1>4, RunKeepsKept
<1>7. AgentTypes'
  <2>1. Cost(logs) \in Nat
    BY <1>1, Costs DEF AgentTypes
  <2> QED BY <2>1, <1>1, <1>2, <1>3, <1>4, <1>5 DEF AgentTypes, Ends
<1>8. FollowsInv'
  BY <1>1, <1>2, <1>3, <1>4, <1>5 DEF AgentTypes, FollowsInv, Well, Ends
<1>9. ProgressInv'
  BY <1>1, <1>2, <1>3, <1>4, <1>5, PlanFacts DEF AgentTypes, ProgressInv, Well, Decided, Certified, CallsDone, Ends
<1>10. AttemptsInv'
  BY <1>1, <1>2, <1>3, <1>4, <1>5 DEF AgentTypes, AttemptsInv
<1>11. OutcomeInv'
  <2>1. agent.input.pages => logs = agent.asked
    <3>1. Len(agent.trace) >= 3
      <4>1. Len(PlanFor(agent.input)) \in Nat /\ Len(PlanFor(agent.input)) >= 5
        BY PlanFacts
      <4> QED BY <4>1, <1>1, <1>2, <1>3 DEF ProgressInv, CallsDone
    <3> QED BY <3>1, <1>1, <1>3 DEF AttemptsInv
  <2>2. Doubt' <=> Doubt
    BY <1>4 DEF Doubt, Semantic
  <2>3. Doubt' => agent'.review
    BY <2>2, <1>4
  <2>4. agent'.decision = DecisionOn(agent'.input.evidence, Doubt')
    BY <2>2, <1>4
  <2>5. agent'.input.pages => agent'.cost = Cost(agent'.asked)
    BY <2>1, <1>4
  <2>6. ~Frozen' /\ agent'.pc = "freeze" /\ agent'.assessment = "whole" /\ agent'.status # "COMPLETED"
    BY <1>1, <1>2, <1>3, <1>4 DEF Frozen, AgentTypes, Ends
  <2> QED BY <2>3, <2>4, <2>5, <2>6 DEF OutcomeInv, Decided
<1> QED BY <1>6, <1>7, <1>8, <1>9, <1>10, <1>11 DEF AgentInv

\* The status follows from the decision.
LEMMA FinishKeeps ==
    ASSUME AgentInv, Finish
    PROVE  AgentInv'
<1>1. AgentTypes /\ FollowsInv /\ ProgressInv /\ AttemptsInv /\ OutcomeInv /\ KeptInv
  BY DEF AgentInv
<1>2. agent.pc = "finish" /\ kept' = kept /\ verdict' = verdict /\ logs' = logs
  BY DEF Finish, AgentAt
<1>3. Running /\ DOMAIN agent = AgentFields
  BY <1>1, <1>2 DEF AgentTypes, Running, AgentAt
<1>4. /\ DOMAIN agent' = AgentFields
      /\ agent'.how = agent.how /\ agent'.input = agent.input /\ agent'.pc = "ended"
      /\ agent'.status = (CASE agent.review \/ agent.decision = "REVIEW" -> "REVIEW_REQUIRED" [] ~agent.review /\ agent.decision = "ABSTAIN" -> "INSUFFICIENT_EVIDENCE" [] OTHER -> "COMPLETED")
      /\ agent'.plan = agent.plan /\ agent'.trace = agent.trace
      /\ agent'.attempt = agent.attempt /\ agent'.asked = agent.asked
      /\ agent'.extraction = agent.extraction /\ agent'.assessment = agent.assessment
      /\ agent'.decision = agent.decision /\ agent'.review = agent.review
      /\ agent'.cost = agent.cost /\ agent'.snapshot = agent.snapshot
      /\ agent'.certificate = agent.certificate
  BY <1>2, <1>3 DEF Finish, AgentAt, AgentFields
<1>5. Running'
  BY <1>2, <1>4 DEF Running, AgentAt
<1>6. KeptInv'
  BY <1>1, <1>2, <1>3, <1>4, RunKeepsKept
<1>7. AgentTypes'
  BY <1>1, <1>2, <1>3, <1>4, <1>5 DEF AgentTypes, Ends
<1>8. FollowsInv'
  BY <1>1, <1>2, <1>3, <1>4, <1>5 DEF AgentTypes, FollowsInv, Well, Ends
<1>9. ProgressInv'
  BY <1>1, <1>2, <1>3, <1>4, <1>5, PlanFacts DEF AgentTypes, ProgressInv, Well, Decided, Certified, CallsDone, Ends
<1>10. AttemptsInv'
  BY <1>1, <1>2, <1>3, <1>4, <1>5 DEF AgentTypes, AttemptsInv
<1>11. OutcomeInv'
  <2>1. /\ agent.assessment = "whole" /\ agent.decision \in {"PASS", "FLAG", "REVIEW", "ABSTAIN"}
        /\ agent.decision = DecisionOn(agent.input.evidence, Doubt)
        /\ Doubt => agent.review
        /\ agent.input.pages => agent.cost = Cost(agent.asked)
        /\ agent.snapshot = [input |-> FrozenInput(agent.input), output |-> Output(agent),
                             release |-> agent.snapshot.release]
    BY <1>1, <1>2, <1>3, Decisions DEF OutcomeInv, Decided, Frozen
  <2>2. /\ Doubt' <=> Doubt
        /\ Output(agent)' = Output(agent)
    BY <1>4 DEF Doubt, Semantic, Output
  <2>3. /\ agent'.decision = DecisionOn(agent'.input.evidence, Doubt')
        /\ Doubt' => agent'.review
        /\ agent'.input.pages => agent'.cost = Cost(agent'.asked)
        /\ agent'.snapshot = [input |-> FrozenInput(agent'.input), output |-> Output(agent)',
                              release |-> agent'.snapshot.release]
    BY <2>1, <2>2, <1>4
  <2>4. CASE agent.review \/ agent.decision = "REVIEW"
    <3>1. agent'.status = "REVIEW_REQUIRED"
      BY <2>4, <1>4
    <3> QED BY <3>1, <2>1, <2>3, <1>4 DEF OutcomeInv
  <2>5. CASE ~agent.review /\ agent.decision = "ABSTAIN"
    <3>1. agent'.status = "INSUFFICIENT_EVIDENCE" /\ ~agent'.review
      BY <2>5, <1>4
    <3> QED BY <3>1, <2>1, <2>3, <1>4 DEF OutcomeInv
  <2>6. CASE ~agent.review /\ agent.decision \in {"PASS", "FLAG"}
    <3>1. /\ agent'.status = "COMPLETED" /\ ~agent'.review
          /\ agent'.decision \in {"PASS", "FLAG"}
      BY <2>6, <1>4
    <3> QED BY <3>1, <2>1, <2>3, <1>4 DEF OutcomeInv
  <2> QED BY <2>1, <2>4, <2>5, <2>6
<1> QED BY <1>6, <1>7, <1>8, <1>9, <1>10, <1>11 DEF AgentInv

\* A new run knows nothing of an earlier one but its log.
LEMMA BeginKeeps ==
    ASSUME AgentInv, NEW how, NEW in \in InputRecords, Begin(how, in), verdict' = Null,
           how = "replay" => kept # Null /\ in = kept.of.input
    PROVE  AgentInv'
<1>1. AgentTypes /\ KeptInv /\ kept' = kept
  BY DEF AgentInv, Begin
<1>2. agent' = [how |-> how, input |-> in, pc |-> "plan", status |-> "PLANNING",
                 plan |-> << >>, trace |-> << >>, attempt |-> 0, asked |-> << >>,
                 extraction |-> "none", assessment |-> "none", decision |-> "ABSTAIN",
                 review |-> FALSE, cost |-> 0, snapshot |-> Null, certificate |-> << >>]
  BY DEF Begin
<1>3. /\ DOMAIN agent' = AgentFields
      /\ agent'.how = how /\ agent'.input = in /\ agent'.pc = "plan"
      /\ agent'.status = "PLANNING" /\ agent'.trace = << >> /\ agent'.asked = << >>
      /\ agent'.assessment = "none" /\ agent'.cost = 0 /\ agent'.certificate = << >>
  BY <1>2 DEF AgentFields
<1>4. logs' \in Seq(Outcomes)
  BY <1>1 DEF Begin, AgentTypes
<1>5. << >> \in Seq(Outcomes) /\ << >> \in Seq(Entries) /\ Len(<< >>) = 0
  OBVIOUS
<1>6. AgentTypes'
  BY <1>3, <1>4, <1>5 DEF AgentTypes, Ends
<1>7. FollowsInv'
  <2>1. Len(PlanFor(in)) \in Nat
    BY PlanFacts
  <2> QED BY <2>1, <1>3, <1>5 DEF FollowsInv
<1>8. ProgressInv'
  BY <1>3 DEF ProgressInv, CallsDone, Decided, Certified
<1>9. AttemptsInv'
  BY <1>3, <1>5, AgentAssumption DEF AttemptsInv
<1>10. OutcomeInv'
  BY <1>3 DEF OutcomeInv, Decided, Frozen
<1>11. KeptInv'
  BY <1>1, <1>3 DEF KeptInv, Faithful, DriftIsExplained
<1> QED BY <1>6, <1>7, <1>8, <1>9, <1>10, <1>11 DEF AgentInv

\* The input that is frozen is the input, but for a reference profile.
LEMMA FrozenInputs ==
    ASSUME NEW in \in InputRecords
    PROVE  /\ FrozenInput(in) \in InputRecords
           /\ ~in.reference => FrozenInput(in) = in
<1>1. FrozenInput(in) = [previous |-> in.previous, pages |-> in.pages, risky |-> in.risky,
                         reference |-> FALSE, evidence |-> in.evidence]
  <2>1. in = [previous |-> in.previous, pages |-> in.pages, risky |-> in.risky,
              reference |-> in.reference, evidence |-> in.evidence]
    BY DEF InputRecords
  <2>2. \A b : [in EXCEPT !.reference = b]
              = [previous |-> in.previous, pages |-> in.pages, risky |-> in.risky,
                 reference |-> b, evidence |-> in.evidence]
    BY <2>1
  <2> QED BY <2>2, Zenon DEF FrozenInput
<1>2. FrozenInput(in) \in InputRecords
  BY <1>1 DEF InputRecords
<1>3. ASSUME ~in.reference PROVE FrozenInput(in) = in
  <2>1. in.reference = FALSE
    BY <1>3 DEF InputRecords
  <2>2. in = [previous |-> in.previous, pages |-> in.pages, risky |-> in.risky,
              reference |-> in.reference, evidence |-> in.evidence]
    BY DEF InputRecords
  <2> QED BY <2>1, <2>2, <1>1
<1> QED BY <1>2, <1>3

\* Runs and replays are started with inputs of the same form.
LEMMA StartsKeep ==
    ASSUME AgentInv, (\E how \in {"request", "document", "batch"} : StartRun(how)) \/ Replay
    PROVE  AgentInv'
<1>1. CASE \E how \in {"request", "document", "batch"} : StartRun(how)
  <2>1. PICK how \in {"request", "document", "batch"}, in \in Inputs :
           Begin(how, in) /\ verdict' = Null
    BY <1>1 DEF StartRun
  <2>2. in \in InputRecords
    BY InputsAssumption DEF InputRecords
  <2> QED BY <2>1, <2>2, BeginKeeps
<1>2. CASE Replay
  <2>1. kept # Null /\ Begin("replay", kept.of.input) /\ verdict' = Null
    BY <1>2 DEF Replay
  <2>2. kept.of.input \in InputRecords
    BY <2>1, FrozenInputs DEF AgentInv, KeptInv, Faithful
  <2> QED BY <2>1, <2>2, BeginKeeps
<1> QED BY <1>1, <1>2

\* What is handed to a caller is whole.
LEMMA AnswerKeeps == ASSUME AgentInv, Answer PROVE AgentInv'
<1>1. AgentTypes /\ FollowsInv /\ ProgressInv /\ AttemptsInv /\ OutcomeInv /\ KeptInv
  BY DEF AgentInv
<1>2. agent.pc = "ended" /\ Running /\ verdict' = verdict /\ verdict = Null
  BY <1>1 DEF Answer, AgentAt, Running, KeptInv
<1>3. agent'.pc = "idle"
  BY DEF Answer, Rest
<1>4. logs' \in Seq(Outcomes)
  <2>1. << >> \in Seq(Outcomes) /\ logs \in Seq(Outcomes)
    BY <1>1 DEF AgentTypes
  <2> QED BY <2>1 DEF Answer
<1>5. ASSUME agent.status # "FAILED" PROVE Faithful(Snapshot(agent))
  <2>1. /\ agent.status \in Ends \ {"FAILED"} /\ agent.input \in InputRecords
        /\ agent.cost \in Nat
    BY <1>1, <1>2, <1>5 DEF AgentTypes
  <2>2. agent.certificate # << >>
    <3>1. agent.certificate = agent.trace /\ Len(agent.trace) = Len(PlanFor(agent.input))
      BY <1>1, <1>2, <1>5 DEF ProgressInv, CallsDone, Decided, Certified, Well
    <3>2. Len(PlanFor(agent.input)) \in Nat /\ Len(PlanFor(agent.input)) >= 5
      BY PlanFacts
    <3>3. Len(agent.trace) # 0
      BY <3>1, <3>2
    <3> QED BY <3>1, <3>3
  <2>3. /\ agent.assessment = "whole"
        /\ agent.decision = DecisionOn(agent.input.evidence, Doubt)
        /\ agent.snapshot.input = FrozenInput(agent.input)
        /\ agent.snapshot.output = Output(agent)
    BY <1>1, <1>2, <1>5 DEF OutcomeInv, Decided, Frozen, Well
  <2>4. Output(agent) = [input |-> agent.input, extraction |-> agent.extraction,
                         decision |-> agent.decision, assessment |-> "whole",
                         cost |-> agent.cost]
    BY <2>3 DEF Output
  <2>5. /\ Snapshot(agent).of = agent.snapshot /\ Snapshot(agent).status = agent.status
        /\ Snapshot(agent).certificate = agent.certificate
        /\ Snapshot(agent).reference = agent.input.reference
        /\ Snapshot(agent).stale = (~agent.input.pages /\ agent.cost > 0)
    BY DEF Snapshot
  <2> DEFINE k == Snapshot(agent)
             o == k.of.output
  <2>6. /\ o.input = agent.input /\ o.extraction = agent.extraction
        /\ o.decision = agent.decision /\ o.assessment = "whole" /\ o.cost = agent.cost
        /\ o = [input |-> o.input, extraction |-> o.extraction, decision |-> o.decision,
                assessment |-> "whole", cost |-> o.cost]
        /\ k.of.input = FrozenInput(o.input)
    BY <2>3, <2>4, <2>5
  <2>7. Doubt = \/ \/ o.extraction = "failed"
                   \/ o.extraction = "nothing" /\ o.input.risky
                \/ o.input.evidence = "conflicting"
    BY <2>6 DEF Doubt, Semantic
  <2>8. o.decision = DecisionOn(o.input.evidence,
                               \/ \/ o.extraction = "failed"
                                  \/ o.extraction = "nothing" /\ o.input.risky
                               \/ o.input.evidence = "conflicting")
    BY <2>3, <2>6, <2>7
  <2>9. (k.reference <=> o.input.reference) /\ (k.stale <=> (~o.input.pages /\ o.cost > 0))
    BY <2>5, <2>6
  <2>10. k.status \in Ends \ {"FAILED"} /\ k.certificate # << >> /\ o.input \in InputRecords
    BY <2>1, <2>2, <2>5, <2>6
  <2> HIDE DEF k
  <2> QED BY <2>6, <2>8, <2>9, <2>10 DEF Faithful, k
<1>6. kept' = kept \/ (agent.status # "FAILED" /\ kept' = Snapshot(agent))
  BY DEF Answer
<1>7. kept' # Null => Faithful(kept')
  BY <1>1, <1>5, <1>6 DEF KeptInv
<1>8. KeptInv'
  BY <1>2, <1>3, <1>7 DEF KeptInv, DriftIsExplained, Running, AgentAt, Faithful
<1>9. ~Running'
  BY <1>3 DEF Running, AgentAt
<1> QED BY <1>4, <1>8, <1>9, RestKeeps

\* A worker's death and a deployment leave what was kept.
LEMMA StopsKeep == ASSUME AgentInv, Killed \/ Redeploy PROVE AgentInv'
<1>1. agent'.pc = "idle" /\ logs' = << >> /\ kept' = kept /\ verdict' = verdict
  BY DEF Killed, Redeploy, Rest
<1>2. ~Running' /\ logs' \in Seq(Outcomes)
  BY <1>1 DEF Running, AgentAt
<1>3. KeptInv'
  BY <1>1, <1>2 DEF AgentInv, KeptInv, Faithful, DriftIsExplained, Repeated
<1> QED BY <1>2, <1>3, RestKeeps

\* A verdict that nothing was run for.
LEMMA MismatchKeeps == ASSUME AgentInv, Mismatch PROVE AgentInv'
<1>1. /\ agent.pc = "idle" /\ agent' = agent /\ logs' = logs /\ kept' = kept
      /\ verdict'.status = "VERSION_MISMATCH"
  BY DEF Mismatch, AgentAt
<1>2. ~Running' /\ logs' \in Seq(Outcomes)
  BY <1>1 DEF Running, AgentAt, AgentInv, AgentTypes
<1>3. KeptInv'
  BY <1>1, <1>2 DEF AgentInv, KeptInv, Faithful, DriftIsExplained
<1> QED BY <1>2, <1>3, RestKeeps

\* A replay that did as the kept run did computes the same output.
LEMMA SameOutput ==
    ASSUME AgentTypes, AttemptsInv, OutcomeInv, Running, kept # Null, Faithful(kept),
           agent.input = kept.of.input, agent.assessment = "whole",
           agent.extraction = kept.of.output.extraction,
           ~kept.stale => kept.of.output.cost = Cost(agent.asked),
           ~kept.reference, ~kept.stale, ~(~agent.input.pages /\ agent.cost > 0)
    PROVE  Output(agent) = kept.of.output
<1> DEFINE o == kept.of.output
<1>1. /\ o = [input |-> o.input, extraction |-> o.extraction, decision |-> o.decision,
              assessment |-> "whole", cost |-> o.cost]
      /\ o.input \in InputRecords /\ ~o.input.reference
      /\ kept.of.input = FrozenInput(o.input)
      /\ o.decision = DecisionOn(o.input.evidence,
                                 \/ \/ o.extraction = "failed"
                                    \/ o.extraction = "nothing" /\ o.input.risky
                                 \/ o.input.evidence = "conflicting")
  BY DEF Faithful
<1>2. agent.input = o.input
  BY <1>1, FrozenInputs
<1>3. agent.decision = DecisionOn(agent.input.evidence, Doubt)
  BY DEF OutcomeInv
<1>4. Doubt = \/ \/ o.extraction = "failed"
                 \/ o.extraction = "nothing" /\ o.input.risky
              \/ o.input.evidence = "conflicting"
  BY <1>2 DEF Doubt, Semantic
<1>5. agent.decision = o.decision
  BY <1>1, <1>2, <1>3, <1>4
<1>6. agent.cost = o.cost
  <2>1. CASE agent.input.pages
    BY <2>1 DEF OutcomeInv
  <2>2. CASE ~agent.input.pages
    <3>1. agent.asked = << >> /\ agent.cost \in Nat
      BY <2>2 DEF AttemptsInv, AgentTypes
    <3> QED BY <2>2, <3>1, NoCost
  <2> QED BY <2>1, <2>2
<1>7. Output(agent) = [input |-> agent.input, extraction |-> agent.extraction,
                       decision |-> agent.decision, assessment |-> "whole",
                       cost |-> agent.cost]
  BY DEF Output
<1> HIDE DEF o
<1> QED BY <1>1, <1>2, <1>5, <1>6, <1>7 DEF o

\* So the replay says DRIFT only where there is some.
LEMMA CompareKeeps == ASSUME AgentInv, Compare PROVE AgentInv'
<1>1. AgentTypes /\ AttemptsInv /\ OutcomeInv /\ KeptInv
  BY DEF AgentInv
<1>2. /\ agent.pc = "ended" /\ agent.how = "replay" /\ agent'.pc = "idle"
      /\ logs' = logs /\ kept' = kept
  BY DEF Compare, AgentAt, Rest
<1>3. Running /\ kept # Null /\ Faithful(kept) /\ agent.input = kept.of.input
  BY <1>1, <1>2 DEF Running, AgentAt, KeptInv
<1>4. ~Running' /\ logs' \in Seq(Outcomes)
  BY <1>1, <1>2 DEF Running, AgentAt, AgentTypes
<1>5. /\ verdict'.status = (IF Output(agent) = kept.of.output THEN "IDENTICAL" ELSE "DRIFT")
      /\ verdict'.run.assessment = agent.assessment
      /\ verdict'.run.extraction = agent.extraction
      /\ verdict'.run.paid = Cost(agent.asked)
      /\ verdict'.run.stale = (~agent.input.pages /\ agent.cost > 0)
  BY DEF Compare
<1>6. DriftIsExplained'
  <2> SUFFICES ASSUME verdict'.status = "DRIFT", Repeated',
                      ~kept.reference, ~kept.stale, ~verdict'.run.stale
               PROVE  FALSE
    BY <1>2 DEF DriftIsExplained
  <2>1. /\ agent.assessment = "whole" /\ agent.extraction = kept.of.output.extraction
        /\ ~kept.stale => kept.of.output.cost = Cost(agent.asked)
        /\ ~(~agent.input.pages /\ agent.cost > 0)
    BY <1>2, <1>5 DEF Repeated
  <2>2. Output(agent) = kept.of.output
    BY <2>1, <1>1, <1>3, SameOutput
  <2> QED BY <2>2, <1>5
<1>7. KeptInv'
  BY <1>2, <1>3, <1>4, <1>6 DEF KeptInv, Faithful
<1> QED BY <1>4, <1>7, RestKeeps

\* Before the first run.
LEMMA AgentInvInit == ASSUME AgentInit PROVE AgentInv
<1>1. agent.pc = "idle" /\ logs = << >> /\ kept = Null /\ verdict = Null
  BY DEF AgentInit, Rest
<1>2. ~Running /\ logs \in Seq(Outcomes)
  BY <1>1 DEF Running, AgentAt
<1> QED BY <1>1, <1>2 DEF AgentInv, AgentTypes, FollowsInv, ProgressInv, AttemptsInv,
           OutcomeInv, KeptInv, DriftIsExplained

\* Every step of the agent keeps the invariant.
LEMMA AgentInvStep == AgentInv /\ [AgentNext]_agentVars => AgentInv'
<1> SUFFICES ASSUME AgentInv, [AgentNext]_agentVars PROVE AgentInv'
  OBVIOUS
<1>1. CASE UNCHANGED agentVars
  <2>1. agent' = agent /\ logs' = logs /\ kept' = kept /\ verdict' = verdict
    BY <1>1 DEF agentVars
  <2>2. AgentTypes' /\ AttemptsInv'
    BY <2>1 DEF AgentInv, AgentTypes, AttemptsInv, Running, AgentAt
  <2>3. FollowsInv' /\ ProgressInv'
    BY <2>1 DEF AgentInv, FollowsInv, ProgressInv, Running, AgentAt, Well, Decided,
       Certified, CallsDone
  <2>4. OutcomeInv'
    BY <2>1 DEF AgentInv, OutcomeInv, Running, AgentAt, Well, Decided, Frozen, Doubt,
       Semantic, Output
  <2>5. KeptInv'
    BY <2>1 DEF AgentInv, KeptInv, DriftIsExplained, Repeated, Faithful, Running, AgentAt
  <2> QED BY <2>2, <2>3, <2>4, <2>5 DEF AgentInv
<1>2. CASE Retry
  BY <1>2, RetryAgainKeeps, RetryLastKeeps
<1>3. CASE AgentNext
  BY <1>2, <1>3, StartsKeep, MakePlanKeeps, CallToolKeeps, CallFailsKeeps, RaiseKeeps,
     ExtractKeeps, AnsweredKeeps, GiveUpKeeps, KeylessKeeps, DecideKeeps, FreezeKeeps,
     CertifyKeeps, FinishKeeps, AnswerKeeps, StopsKeep, MismatchKeeps, CompareKeeps
     DEF AgentNext
<1> QED BY <1>1, <1>3

\* The invariant of the agent's runs.
THEOREM AgentInvariant == AgentSpec => []AgentInv
BY AgentInvInit, AgentInvStep, PTL DEF AgentSpec


\* What is called is the plan, as far as it went.
LEMMA TracesArePlans == AgentInv => TraceIsThePlan
<1> SUFFICES ASSUME AgentInv, Running
             PROVE  /\ IsPrefix(StepsOf(agent.trace), PlanFor(agent.input))
                    /\ agent.status \in Ends \ {"FAILED"}
                          => /\ StepsOf(agent.certificate) = agent.plan
                             /\ \A i \in DOMAIN agent.trace :
                                  ~agent.trace[i].ok => agent.trace[i].tool = "narrative_evidence"
                    /\ agent.certificate # << >> => agent.certificate = agent.trace
  BY DEF TraceIsThePlan
<1> DEFINE p == PlanFor(agent.input)
           t == StepsOf(agent.trace)
           n == Len(agent.trace)
<1>1. /\ agent.trace \in Seq(Entries) /\ n \in Nat /\ DOMAIN agent.trace = 1 .. n
      /\ n <= Len(p)
      /\ \A i \in 1 .. n :
            /\ p[i] = Step(agent.trace[i].step, agent.trace[i].tool)
            /\ Well /\ ~agent.trace[i].ok => agent.trace[i].tool = "narrative_evidence"
  BY LenProperties DEF AgentInv, AgentTypes, FollowsInv
<1>2. p \in Seq(PlanSteps) /\ Len(p) \in Nat
  BY PlanIsTheText, PlanFacts DEF Aligned
<1> HIDE DEF p
<1>3. t = [i \in 1 .. n |-> p[i]]
  BY <1>1 DEF StepsOf
<1>4. \A i \in 1 .. n : p[i] \in PlanSteps
  BY <1>1, <1>2
<1>5. t \in Seq(PlanSteps) /\ Len(t) = n
  BY <1>1, <1>3, <1>4
<1> HIDE DEF t
<1>6. IsPrefix(t, p)
  <2>1. SubSeq(t, 1, n) = t
    BY <1>5, SubSeqFull
  <2>2. /\ SubSeq(p, 1, n) \in Seq(PlanSteps)
        /\ Len(SubSeq(p, 1, n)) = n
        /\ \A i \in 1 .. n : SubSeq(p, 1, n)[i] = p[i]
    BY <1>1, <1>2, <1>4
  <2>3. SubSeq(p, 1, n) = t
    BY <2>2, <1>3, <1>5, SeqEqual
  <2> QED BY <2>1, <2>3, <1>1, <1>5 DEF IsPrefix
<1>7. ASSUME agent.status \in Ends \ {"FAILED"}
      PROVE  StepsOf(agent.certificate) = agent.plan
  <2>1. Certified /\ CallsDone
    BY <1>7 DEF AgentInv, AgentTypes, Certified, CallsDone, Decided, Well
  <2>2. agent.certificate = agent.trace /\ n = Len(p) /\ agent.plan = p
    BY <2>1 DEF AgentInv, ProgressInv, p
  <2>3. t = p
    BY <2>2, <1>2, <1>3, <1>5, SeqEqual
  <2> QED BY <2>2, <2>3 DEF t
<1>8. ASSUME agent.status \in Ends \ {"FAILED"}
      PROVE  \A i \in DOMAIN agent.trace :
                ~agent.trace[i].ok => agent.trace[i].tool = "narrative_evidence"
  BY <1>1, <1>8 DEF Well
<1>9. agent.certificate # << >> => agent.certificate = agent.trace
  BY DEF AgentInv, ProgressInv
<1> QED BY <1>6, <1>7, <1>8, <1>9 DEF t, p

\* The attempts and what they cost are the run's own.
LEMMA AttemptsAreOwn == AgentInv => AttemptsAreAccounted
<1> SUFFICES ASSUME AgentInv, Running
             PROVE  /\ Len(agent.asked) <= MaxRetries + 1
                    /\ \A i \in DOMAIN agent.asked :
                          i < Len(agent.asked) => agent.asked[i] = "retryable"
                    /\ (agent.input.pages /\ agent.assessment = "whole")
                          => agent.cost = Cost(agent.asked)
  BY DEF AttemptsAreAccounted
<1>1. agent.asked \in Seq(Outcomes) /\ DOMAIN agent.asked = 1 .. Len(agent.asked)
  BY LenProperties DEF AgentInv, AgentTypes
<1> QED BY <1>1 DEF AgentInv, AttemptsInv, OutcomeInv

\* AnswersAreWhole for any inputs, retries, runs and deployments: whatever raises,
\* and wherever, a caller is given a whole answer that follows its plan, or none.
THEOREM AnswersAreAlwaysWhole == AgentSpec => []AnswersAreWhole
<1>1. AgentInv => AnswersAreWhole
  <2> SUFFICES ASSUME AgentInv PROVE AnswersAreWhole
    OBVIOUS
  <2>1. TraceIsThePlan /\ AttemptsAreAccounted
    BY TracesArePlans, AttemptsAreOwn
  <2>2. ASSUME Running, agent.status \in Ends \ {"FAILED"}
        PROVE  /\ agent.snapshot # Null /\ agent.certificate # << >>
               /\ agent.status = "COMPLETED" => agent.decision \in {"PASS", "FLAG"} /\ ~agent.review
               /\ (Semantic \/ agent.review) => agent.status = "REVIEW_REQUIRED"
    <3>1. agent.pc = "ended" /\ Well /\ Decided /\ Frozen /\ Certified /\ CallsDone
      BY <2>2 DEF AgentInv, AgentTypes, Decided, Frozen, Certified, CallsDone, Well
    <3>2. agent.snapshot # Null
      <4>1. agent.snapshot = [input |-> FrozenInput(agent.input), output |-> Output(agent),
                              release |-> agent.snapshot.release]
        BY <3>1, <2>2 DEF AgentInv, OutcomeInv
      <4>2. "input" \in DOMAIN agent.snapshot /\ "input" \notin DOMAIN Null
        BY <4>1 DEF Null
      <4> QED BY <4>2
    <3>3. agent.certificate # << >>
      <4>1. agent.certificate = agent.trace /\ Len(agent.trace) = Len(PlanFor(agent.input))
        BY <3>1, <2>2 DEF AgentInv, ProgressInv
      <4>2. Len(PlanFor(agent.input)) \in Nat /\ Len(PlanFor(agent.input)) >= 5
        BY PlanFacts
      <4>3. Len(agent.trace) # 0
        BY <4>1, <4>2
      <4> QED BY <4>1, <4>3
    <3>4. /\ agent.status = "COMPLETED" => agent.decision \in {"PASS", "FLAG"} /\ ~agent.review
          /\ agent.review => agent.status = "REVIEW_REQUIRED"
          /\ Doubt => agent.review
      BY <3>1, <2>2 DEF AgentInv, OutcomeInv
    <3> QED BY <3>2, <3>3, <3>4 DEF Doubt
  <2>3. ASSUME kept # Null
        PROVE  /\ kept.status \in Ends \ {"FAILED"}
               /\ kept.of.output.assessment = "whole"
               /\ kept.certificate # << >>
    BY <2>3 DEF AgentInv, KeptInv, Faithful
  <2> QED BY <2>1, <2>2, <2>3 DEF AnswersAreWhole
<1> QED BY <1>1, AgentInvariant, PTL

\* DriftIsExplained, likewise: a replay of a kept snapshot that did as the kept run
\* did reports drift only for a reference profile or the cost of an earlier run.
THEOREM DriftIsAlwaysExplained == AgentSpec => []DriftIsExplained
<1>1. AgentInv => DriftIsExplained
  BY DEF AgentInv, KeptInv
<1> QED BY <1>1, AgentInvariant, PTL
=============================================================================

---------------------------- MODULE GroupsProofs ----------------------------
(***************************************************************************)
(* Proofs about Groups for any number of events, workers, group types,     *)
(* groups and properties, and any limit on the group types.                *)
(***************************************************************************)
EXTENDS Groups, FiniteSetTheorems, TLAPS

-----------------------------------------------------------------------------
(* What calculateUpdate returns *)

LEMMA WrittenType ==
    ASSUME NEW e \in Events, NEW op \in Operations, NEW time \in Nat
    PROVE  Written(e, op, time) \in Entries
BY DEF Written, Entries

LEMMA AbsentType == Absent \in Entries /\ Unstamped \in Entries
BY DEF Absent, Unstamped, Written, Entries, Operations, Epoch

\* calculateUpdate returns properties again.
LEMMA CalculateUpdateType ==
    ASSUME NEW p \in [Keys -> Entries], NEW e \in Events, NEW set, NEW once, NEW ts \in Stamps
    PROVE  /\ CalculateUpdate(p, e, set, once, ts) \in [Keys -> Entries]
           /\ \A k \in Keys : CalculateUpdate(p, e, set, once, ts)[k] # p[k]
                                => CalculateUpdate(p, e, set, once, ts)[k].time = ts
<1>1. Written(e, "set", ts) \in Entries /\ Written(e, "set_once", ts) \in Entries
  BY WrittenType DEF Operations, Stamps
<1>2. Written(e, "set", ts).time = ts /\ Written(e, "set_once", ts).time = ts
  BY DEF Written
<1>3. QED  BY <1>1, <1>2 DEF CalculateUpdate

\* Without $set_once, calculateUpdate writes the keys that are absent, were set
\* once, or are older.
LEMMA CalculateUpdateSet ==
    ASSUME NEW p \in [Keys -> Entries], NEW e \in Events, NEW set, NEW ts \in Stamps, NEW k \in Keys
    PROVE  CalculateUpdate(p, e, set, {}, ts)[k] =
             IF k \in set /\ (~Exists(p[k]) \/ p[k].op = "set_once" \/ p[k].time < ts)
             THEN Written(e, "set", ts) ELSE p[k]
BY DEF CalculateUpdate, SetApplies

-----------------------------------------------------------------------------
(* The inductive invariant *)

LookingUp == {"lookUp", "queryTypes", "cacheTypes", "insertType", "insertRow", "gotIndex"}
Upserting == {"fetchGroup", "insertGroup", "updateGroup"}

\* How far an event is, in indexes found.
Progress(e) ==
    /\ pc[e] \in LookingUp => Len(columns[e]) < Len(event[e].types)
    /\ pc[e] \notin LookingUp => Len(columns[e]) = Len(event[e].types)
    /\ pc[e] \in Upserting => event[e].key # NoKey /\ LastColumn(e) # NoIndex

\* types are the group types of now or of some earlier time.
Earlier(types) ==
    /\ types \in GroupTypes
    /\ IsFiniteSet(Indexed(types))
    /\ Numbered(types)
    /\ \A t \in Types : types[t] # NoIndex => groupTypes[t] = types[t]

AllTaken(i) == \A j \in 0 .. i - 1 : Taken(j)

\* The index of an event while it inserts its type: those before it are taken, and
\* a type that was not visible to its statement cannot have got one of them.
Proposed(e) ==
    /\ pc[e] \in {"insertType", "insertRow"} => index[e] \in Indexes /\ AllTaken(index[e])
    /\ pc[e] = "insertRow" => \/ groupTypes[Type(e)] = NoIndex
                              \/ groupTypes[Type(e)] >= index[e]
    /\ pc[e] = "gotIndex" => index[e] \in Indexes /\ groupTypes[Type(e)] = index[e]

Distinct ==
    \A s, t \in Types : groupTypes[s] = groupTypes[t] /\ groupTypes[s] # NoIndex => s = t

TypesInv ==
    /\ TypeOK /\ Distinct /\ Earlier(groupTypes) /\ ColumnsAgree
    /\ \A w \in Workers : cache[w] # NoCache => Earlier(cache[w])
    /\ \A e \in Events : Earlier(read[e]) /\ Progress(e) /\ Proposed(e)

\* What fetchGroupTypeIndex may answer to e.
Answer(e, i) ==
    \/ i \in Indexes /\ groupTypes[Type(e)] = i
    \/ /\ i = NoIndex
       /\ \A j \in Indexes : Taken(j)
       /\ groupTypes[Type(e)] \in {NoIndex, MaxGroupTypes - 1}

-----------------------------------------------------------------------------
LEMMA EventFields ==
    ASSUME TypeOK, NEW e \in Events
    PROVE  /\ event[e].types \in Seq(Types) /\ Len(event[e].types) \in Nat
           /\ Len(event[e].types) > 0
           /\ event[e].timestamp \in Stamps
           /\ event[e].key \in GroupKeys \cup {NoKey}
           /\ columns[e] \in Seq(Indexes \cup {NoIndex}) /\ Len(columns[e]) \in Nat
<1>1. event[e] \in EventType  BY DEF TypeOK
<1>2. event[e].types \in Seq(Types) \ {<<>>}  BY <1>1 DEF EventType
<1>3. columns[e] \in Seq(Indexes \cup {NoIndex})  BY DEF TypeOK
<1>4. QED  BY <1>1, <1>2, <1>3 DEF EventType

LEMMA TypeOfEvent ==
    ASSUME TypesInv, NEW e \in Events, pc[e] \in LookingUp
    PROVE  Type(e) \in Types /\ groupTypes[Type(e)] \in Indexes \cup {NoIndex}
<1>1. Len(columns[e]) + 1 \in 1 .. Len(event[e].types)
  BY EventFields DEF TypesInv, Progress
<1>2. QED  BY <1>1, EventFields DEF Type, TypesInv, TypeOK, GroupTypes

LEMMA GroupOfEvent ==
    ASSUME TypesInv, NEW e \in Events, pc[e] \in Upserting
    PROVE  GroupOf(e) \in Groups
<1>1. pc[e] \notin LookingUp  BY DEF Upserting, LookingUp
<1>2. Len(columns[e]) \in 1 .. Len(columns[e])
  BY <1>1, EventFields DEF TypesInv, Progress
<1>3. LastColumn(e) \in Indexes /\ event[e].key \in GroupKeys
  BY <1>2, EventFields DEF TypesInv, Progress, LastColumn
<1>4. QED  BY <1>3 DEF GroupOf, Groups

-----------------------------------------------------------------------------
(* The three ways an event proposes an index or gets an answer *)

\* The next step of e after a lookup or a conflict.
Outcome(e) ==
    \/ \E i : Answer(e, i) /\ Return(e, i) /\ UNCHANGED index
    \/ \E i \in Indexes : /\ AllTaken(i)
                          /\ index' = [index EXCEPT ![e] = i]
                          /\ Goto(e, "insertType")
                          /\ UNCHANGED columns

LEMMA TryIndexOutcome ==
    ASSUME NEW e \in Events, NEW i \in Nat, TryIndex(e, i), AllTaken(i),
           i >= MaxGroupTypes => groupTypes[Type(e)] \in {NoIndex, MaxGroupTypes - 1}
    PROVE  Outcome(e)
<1>1. CASE WithinLimit(i)
  <2>1. i \in Indexes  BY <1>1, GroupsOK DEF WithinLimit, Indexes
  <2>2. QED  BY <1>1, <2>1 DEF TryIndex, Outcome
<1>2. CASE ~WithinLimit(i)
  <2>1. i >= MaxGroupTypes  BY <1>2, GroupsOK DEF WithinLimit
  <2>2. \A j \in Indexes : Taken(j)  BY <2>1, GroupsOK DEF AllTaken, Indexes
  <2>3. Answer(e, NoIndex)  BY <2>1, <2>2 DEF Answer
  <2>4. QED  BY <1>2, <2>3 DEF TryIndex, Outcome
<1>3. QED  BY <1>1, <1>2

LEMMA UseTypesOutcome ==
    ASSUME TypesInv, NEW e \in Events, pc[e] \in LookingUp, NEW types, Earlier(types), UseTypes(e, types)
    PROVE  Outcome(e)
<1> DEFINE n == Cardinality(Indexed(types))
<1>1. Type(e) \in Types /\ groupTypes[Type(e)] \in Indexes \cup {NoIndex}  BY TypeOfEvent
<1>2. CASE types[Type(e)] # NoIndex
  <2>1. types[Type(e)] \in Indexes /\ groupTypes[Type(e)] = types[Type(e)]
    BY <1>1, <1>2 DEF Earlier, GroupTypes
  <2>2. QED  BY <1>2, <2>1 DEF UseTypes, Outcome, Answer
<1>3. CASE types[Type(e)] = NoIndex
  <2>1. TryIndex(e, n)  BY <1>3 DEF UseTypes, NextIndex
  <2>2. n \in Nat  BY FS_CardinalityType DEF Earlier
  <2>3. \A j \in 0 .. n - 1 : \E t \in Types : t # Type(e) /\ groupTypes[t] = j
    BY <1>3 DEF Earlier, Numbered, Indexed
  <2>4. AllTaken(n)  BY <2>3 DEF AllTaken, Taken
  <2>5. ASSUME n >= MaxGroupTypes PROVE groupTypes[Type(e)] = NoIndex
    <3>1. \A j \in Indexes : j \in 0 .. n - 1  BY <2>2, <2>5, GroupsOK DEF Indexes
    <3>2. \A j \in Indexes : groupTypes[Type(e)] # j
      BY <1>1, <2>3, <3>1, GroupsOK DEF TypesInv, Distinct, Indexes
    <3>3. QED  BY <1>1, <3>2
  <2>6. QED  BY <2>1, <2>2, <2>4, <2>5, TryIndexOutcome
<1>4. QED  BY <1>2, <1>3

LEMMA ConflictOutcome ==
    ASSUME TypesInv, NEW e \in Events, InsertConflicts(e)
    PROVE  Outcome(e)
<1> DEFINE i == index[e]
<1>1. pc[e] \in LookingUp /\ pc[e] = "insertRow"  BY DEF InsertConflicts, LookingUp
<1>2. Type(e) \in Types /\ groupTypes[Type(e)] \in Indexes \cup {NoIndex}  BY <1>1, TypeOfEvent
<1>3. i \in Indexes /\ i \in Nat /\ AllTaken(i)
      /\ (groupTypes[Type(e)] = NoIndex \/ groupTypes[Type(e)] >= i)
  BY <1>1, GroupsOK DEF TypesInv, Proposed, Indexes
<1>4. Taken(i)
  <2>1. CASE groupTypes[Type(e)] = NoIndex
    BY <2>1 DEF InsertConflicts, NoConflict, IndexFree
  <2>2. CASE groupTypes[Type(e)] # NoIndex
    <3>1. groupTypes[Type(e)] \in 0 .. Cardinality(Indexed(groupTypes)) - 1
      BY <1>2, <2>2 DEF TypesInv, Earlier, Numbered, Indexed
    <3>2. i \in 0 .. Cardinality(Indexed(groupTypes)) - 1
      BY <1>3, <2>2, <3>1, FS_CardinalityType DEF TypesInv, Earlier
    <3>3. QED  BY <3>2 DEF TypesInv, Earlier, Numbered, Indexed, Taken
  <2>3. QED  BY <2>1, <2>2
<1>5. AllTaken(i + 1)  BY <1>3, <1>4 DEF AllTaken
<1>6. i + 1 >= MaxGroupTypes => groupTypes[Type(e)] \in {NoIndex, MaxGroupTypes - 1}
  BY <1>2, <1>3, GroupsOK DEF Indexes
<1>7. QED  BY <1>3, <1>5, <1>6, TryIndexOutcome DEF InsertConflicts

-----------------------------------------------------------------------------
(* The steps of the lookups keep TypesInv *)

Labels == LookingUp \cup Upserting \cup {"stored"}

LEMMA LabelsOK == TypeOK <=> TypeOK /\ pc \in [Events -> Labels]
BY DEF TypeOK, Labels, LookingUp, Upserting

\* An answer extends the columns of e by what the team's group types say.
LEMMA ReturnStep ==
    ASSUME TypesInv, NEW e \in Events, pc[e] \in LookingUp, NEW i, Answer(e, i), Return(e, i),
           UNCHANGED <<event, groupTypes>>
    PROVE  /\ columns' \in [Events -> Seq(Indexes \cup {NoIndex})]
           /\ pc' \in [Events -> Labels]
           /\ pc'[e] \notin {"insertType", "insertRow", "gotIndex", "updateGroup"}
           /\ \A d \in Events \ {e} : pc'[d] = pc[d] /\ columns'[d] = columns[d]
           /\ ColumnsAgree'
           /\ Progress(e)' /\ ~Applied(e)'
<1> DEFINE len == Len(columns[e])
<1>1. /\ columns \in [Events -> Seq(Indexes \cup {NoIndex})]
      /\ pc \in [Events -> Labels] /\ len < Len(event[e].types)
  BY LabelsOK DEF TypesInv, TypeOK, Progress
<1>2. len \in Nat /\ Len(event[e].types) \in Nat  BY EventFields DEF TypesInv
<1>3. i \in Indexes \cup {NoIndex}  BY DEF Answer
<1>4. columns' \in [Events -> Seq(Indexes \cup {NoIndex})]  BY <1>1, <1>3 DEF Return
<1>5. /\ columns'[e] = Append(columns[e], i)
      /\ \A d \in Events \ {e} : columns'[d] = columns[d]
  BY <1>1 DEF Return
<1>6. /\ Len(columns'[e]) = len + 1 /\ DOMAIN columns'[e] = 1 .. len + 1
      /\ columns'[e][len + 1] = i /\ \A n \in 1 .. len : columns'[e][n] = columns[e][n]
      /\ DOMAIN columns[e] = 1 .. len
  BY <1>1, <1>2, <1>3, <1>5
<1>7. /\ pc' \in [Events -> Labels]
      /\ pc'[e] = IF len + 1 < Len(event[e].types) THEN "lookUp"
                  ELSE IF event[e].key # NoKey /\ i # NoIndex THEN "fetchGroup" ELSE "stored"
      /\ \A d \in Events \ {e} : pc'[d] = pc[d]
  BY <1>1 DEF Return, Goto, Labels, LookingUp, Upserting
<1>8. ColumnsAgree'
  <2> SUFFICES ASSUME NEW d \in Events, NEW n \in DOMAIN columns'[d]
               PROVE  LET now == groupTypes[event[d].types[n]]
                      IN \/ columns'[d][n] # NoIndex /\ columns'[d][n] = now
                         \/ /\ columns'[d][n] = NoIndex
                            /\ \A j \in Indexes : Taken(j)
                            /\ now \in {NoIndex, MaxGroupTypes - 1}
    BY DEF ColumnsAgree, Taken
  <2>1. CASE d = e /\ n = len + 1
    BY <1>6, <2>1, GroupsOK DEF Answer, Type, Indexes
  <2>2. CASE ~(d = e /\ n = len + 1)
    <3>1. n \in DOMAIN columns[d] /\ columns'[d][n] = columns[d][n]
      BY <1>2, <1>5, <1>6, <2>2
    <3>2. QED  BY <3>1 DEF TypesInv, ColumnsAgree
  <2>3. QED  BY <2>1, <2>2
<1>9. Progress(e)'
  BY <1>1, <1>2, <1>6, <1>7 DEF Progress, LookingUp, Upserting, LastColumn
<1>10. ~Applied(e)'
  BY <1>1, <1>2, <1>6, <1>7 DEF Applied, LastColumn
<1>11. QED  BY <1>4, <1>5, <1>7, <1>8, <1>9, <1>10

LEMMA OutcomeStep ==
    ASSUME TypesInv, NEW e \in Events, pc[e] \in LookingUp, Outcome(e),
           UNCHANGED <<event, groupTypes, read, groupVars>>,
           cache' \in [Workers -> GroupTypes \cup {NoCache}],
           \A w \in Workers : cache'[w] # NoCache => Earlier(cache'[w])
    PROVE  TypesInv'
<1>1. /\ \A w \in Workers : cache'[w] # NoCache => Earlier(cache[w])'
      /\ Distinct' /\ Earlier(groupTypes)'
      /\ \A d \in Events : Earlier(read[d])'
  BY DEF TypesInv, Distinct, Earlier
<1>2. TypeOK /\ pc \in [Events -> Labels] /\ ColumnsAgree  BY LabelsOK DEF TypesInv
<1>3. CASE \E i : Answer(e, i) /\ Return(e, i) /\ UNCHANGED index
  <2>1. PICK i : Answer(e, i) /\ Return(e, i) /\ UNCHANGED index  BY <1>3
  <2>2. /\ columns' \in [Events -> Seq(Indexes \cup {NoIndex})]
        /\ pc' \in [Events -> Labels]
        /\ pc'[e] \notin {"insertType", "insertRow", "gotIndex"}
        /\ \A d \in Events \ {e} : pc'[d] = pc[d] /\ columns'[d] = columns[d]
        /\ ColumnsAgree' /\ Progress(e)'
    BY <2>1, ReturnStep
  <2>3. TypeOK'  BY <1>2, <2>1, <2>2 DEF TypeOK, Labels, LookingUp, Upserting, groupVars
  <2>4. \A d \in Events : Progress(d)'
    BY <2>2 DEF TypesInv, Progress, LastColumn
  <2>5. \A d \in Events : Proposed(d)'
    BY <2>1, <2>2 DEF TypesInv, Proposed, Type, AllTaken, Taken
  <2>6. QED  BY <1>1, <2>2, <2>3, <2>4, <2>5 DEF TypesInv
<1>4. CASE \E i \in Indexes : /\ AllTaken(i) /\ index' = [index EXCEPT ![e] = i]
                              /\ Goto(e, "insertType") /\ UNCHANGED columns
  <2>1. PICK i \in Indexes : /\ AllTaken(i) /\ index' = [index EXCEPT ![e] = i]
                             /\ Goto(e, "insertType") /\ UNCHANGED columns
    BY <1>4
  <2>2. /\ pc' \in [Events -> Labels] /\ pc'[e] = "insertType"
        /\ \A d \in Events \ {e} : pc'[d] = pc[d]
    BY <1>2, <2>1 DEF Goto, Labels, LookingUp
  <2>3. /\ index' \in [Events -> Indexes \cup {NoIndex}] /\ index'[e] = i
        /\ \A d \in Events \ {e} : index'[d] = index[d]
    BY <1>2, <2>1 DEF TypeOK
  <2>4. TypeOK'
    BY <1>2, <2>1, <2>2, <2>3 DEF TypeOK, Labels, LookingUp, Upserting, groupVars
  <2>5. \A d \in Events : Progress(d)'
    BY <2>1, <2>2 DEF TypesInv, Progress, LastColumn, LookingUp, Upserting
  <2>6. \A d \in Events : Proposed(d)'
    BY <2>1, <2>2, <2>3 DEF TypesInv, Proposed, Type, AllTaken, Taken
  <2>7. ColumnsAgree'  BY <1>2, <2>1 DEF ColumnsAgree, Taken
  <2>8. QED  BY <1>1, <2>4, <2>5, <2>6, <2>7 DEF TypesInv
<1>5. QED  BY <1>3, <1>4 DEF Outcome

\* The index an event inserts is the next one.
LEMMA InsertsNext ==
    ASSUME TypesInv, NEW e \in Events, pc[e] = "insertRow", NoConflict(e)
    PROVE  /\ index[e] = Cardinality(Indexed(groupTypes)) /\ index[e] \in Indexes
           /\ Type(e) \in Types /\ groupTypes[Type(e)] = NoIndex
<1> DEFINE i == index[e]
           n == Cardinality(Indexed(groupTypes))
<1>1. Type(e) \in Types /\ groupTypes[Type(e)] = NoIndex /\ ~Taken(i)
  BY TypeOfEvent DEF NoConflict, IndexFree, LookingUp
<1>2. i \in Indexes /\ i \in Nat /\ i # NoIndex /\ AllTaken(i)
  BY GroupsOK DEF TypesInv, Proposed, Indexes
<1>3. n \in Nat /\ {groupTypes[t] : t \in Indexed(groupTypes)} = 0 .. n - 1
  BY FS_CardinalityType DEF TypesInv, Earlier, Numbered
<1>4. \A j \in Nat : Taken(j) <=> j \in 0 .. n - 1
  BY <1>3, GroupsOK DEF Taken, Indexed
<1>5. n \in 0 .. i - 1 => Taken(n)  BY <1>2 DEF AllTaken
<1>6. i = n  BY <1>1, <1>2, <1>3, <1>4, <1>5
<1>7. QED  BY <1>1, <1>2, <1>6

\* The row an event inserts has the index after the last.
LEMMA InsertTypeStep ==
    ASSUME TypesInv, NEW e \in Events, InsertType(e)
    PROVE  TypesInv'
<1> DEFINE t0 == Type(e)
           i == index[e]
           used == Indexed(groupTypes)
           n == Cardinality(Indexed(groupTypes))
<1>1. pc[e] \in LookingUp /\ pc[e] = "insertRow"  BY DEF InsertType, LookingUp
<1>2. TypeOK /\ pc \in [Events -> Labels] /\ groupTypes \in GroupTypes
  BY LabelsOK DEF TypesInv, TypeOK
<1>3. t0 \in Types /\ groupTypes[t0] = NoIndex /\ ~Taken(i)
  BY <1>1, TypeOfEvent DEF InsertType, NoConflict, IndexFree
<1>4. i \in Indexes /\ i \in Nat /\ i # NoIndex /\ AllTaken(i)
  BY <1>1, GroupsOK DEF TypesInv, Proposed, Indexes
<1>5. /\ groupTypes' \in GroupTypes /\ groupTypes'[t0] = i
      /\ \A t \in Types \ {t0} : groupTypes'[t] = groupTypes[t]
  BY <1>2, <1>3, <1>4 DEF InsertType, GroupTypes
<1>6. \A j : Taken(j) /\ j # NoIndex => Taken(j)'
  BY <1>3, <1>5 DEF Taken
<1>7. /\ pc' \in [Events -> Labels] /\ pc'[e] = "gotIndex"
      /\ \A d \in Events \ {e} : pc'[d] = pc[d]
  BY <1>2 DEF InsertType, Goto, Labels, LookingUp
<1>8. TypeOK'
  BY <1>2, <1>5, <1>7 DEF TypeOK, InsertType, Labels, LookingUp, Upserting, groupVars
<1>9. Distinct'
  BY <1>3, <1>4, <1>5 DEF Distinct, TypesInv, Taken
<1>10. Earlier(groupTypes)'
  <2>1. IsFiniteSet(used) /\ n \in Nat /\ {groupTypes[t] : t \in used} = 0 .. n - 1
    BY FS_CardinalityType DEF TypesInv, Earlier, Numbered
  <2>2. Indexed(groupTypes)' = used \cup {t0} /\ t0 \notin used
    BY <1>3, <1>4, <1>5 DEF Indexed
  <2>3. IsFiniteSet(Indexed(groupTypes)') /\ Cardinality(Indexed(groupTypes)') = n + 1
    BY <2>1, <2>2, FS_AddElement
  <2>4. i = n  BY <1>1, InsertsNext DEF InsertType
  <2>5. {groupTypes'[t] : t \in used \cup {t0}} = {groupTypes[t] : t \in used} \cup {i}
    BY <1>3, <1>5, <2>2 DEF Indexed
  <2>6. (0 .. n - 1) \cup {n} = 0 .. (n + 1) - 1  BY <2>1
  <2>7. Numbered(groupTypes)'
    BY <2>1, <2>2, <2>3, <2>4, <2>5, <2>6 DEF Numbered
  <2>8. QED  BY <1>5, <2>3, <2>7 DEF Earlier
<1>11. \A types : Earlier(types) => /\ types \in GroupTypes /\ IsFiniteSet(Indexed(types)) /\ Numbered(types)
                                    /\ \A t \in Types : types[t] # NoIndex => groupTypes'[t] = types[t]
  BY <1>3, <1>5 DEF Earlier
<1>12. /\ \A w \in Workers : cache'[w] # NoCache => Earlier(cache[w])'
       /\ \A d \in Events : Earlier(read[d])'
  BY <1>11 DEF TypesInv, InsertType, Earlier
<1>13. ColumnsAgree'
  <2>1. \A d \in Events : \A m \in DOMAIN columns[d] :
          columns[d][m] # NoIndex /\ columns[d][m] = groupTypes[event[d].types[m]]
    BY <1>3, <1>4 DEF TypesInv, ColumnsAgree
  <2>2. \A d \in Events : \A m \in DOMAIN columns[d] : event[d].types[m] \in Types
    <3> SUFFICES ASSUME NEW d \in Events, NEW m \in DOMAIN columns[d]
                 PROVE  event[d].types[m] \in Types
      OBVIOUS
    <3>1. m \in 1 .. Len(columns[d])  BY <1>2, EventFields
    <3>2. Len(columns[d]) <= Len(event[d].types)  BY <1>2, EventFields DEF TypesInv, Progress
    <3>3. QED  BY <1>2, <3>1, <3>2, EventFields
  <2>3. UNCHANGED <<columns, event>>  BY DEF InsertType
  <2>4. QED  BY <1>3, <1>5, <2>1, <2>2, <2>3 DEF ColumnsAgree
<1>14. \A d \in Events : Progress(d)'
  BY <1>1, <1>7 DEF InsertType, TypesInv, Progress, LastColumn, LookingUp, Upserting
<1>15. \A d \in Events : Proposed(d)'
  <2> SUFFICES ASSUME NEW d \in Events PROVE Proposed(d)'
    OBVIOUS
  <2>1. Type(d)' = Type(d) /\ index' = index  BY DEF InsertType, Type
  <2>2. CASE d = e
    BY <1>4, <1>5, <1>7, <2>1, <2>2 DEF Proposed
  <2>3. CASE d # e /\ pc[d] \in LookingUp
    <3>1. Proposed(d) /\ pc'[d] = pc[d] /\ Type(d) \in Types  BY <1>7, <2>3, TypeOfEvent DEF TypesInv
    <3>2. CASE pc[d] \in {"insertType", "insertRow"}
      <4>1. index[d] \in Indexes /\ index[d] \in Nat /\ AllTaken(index[d])
        BY <3>1, <3>2 DEF Proposed, Indexes
      <4>2. AllTaken(index[d])'  BY <1>6, <2>1, <4>1, GroupsOK DEF AllTaken
      <4>3. i >= index[d]  BY <1>3, <1>4, <4>1 DEF AllTaken
      <4>4. QED  BY <1>5, <2>1, <3>1, <3>2, <4>1, <4>2, <4>3 DEF Proposed
    <3>3. CASE pc[d] \notin {"insertType", "insertRow"}
      BY <1>3, <1>5, <2>1, <3>1, <3>3, GroupsOK DEF Proposed, Indexes
    <3>4. QED  BY <3>2, <3>3
  <2>4. CASE d # e /\ pc[d] \notin LookingUp
    BY <1>7, <2>4 DEF Proposed, LookingUp
  <2>5. QED  BY <2>2, <2>3, <2>4
<1>16. QED  BY <1>8, <1>9, <1>10, <1>12, <1>13, <1>14, <1>15 DEF TypesInv

\* The steps that neither answer nor propose nor insert.
LEMMA OtherLookupSteps ==
    ASSUME TypesInv, NEW e \in Events,
           MissCache(e) \/ QueryTypes(e) \/ SelectType(e) \/ SelectNothing(e)
    PROVE  TypesInv'
<1>1. /\ pc[e] \in LookingUp /\ pc'[e] \in LookingUp /\ pc' \in [Events -> Labels]
      /\ pc'[e] # "insertType" /\ (pc'[e] = "insertRow" => SelectNothing(e))
      /\ (pc'[e] = "gotIndex" => SelectType(e))
      /\ \A d \in Events \ {e} : pc'[d] = pc[d]
  BY LabelsOK
     DEF TypesInv, MissCache, QueryTypes, SelectType, SelectNothing, Goto, Labels, LookingUp
<1>2. UNCHANGED <<event, groupTypes, cache, columns, groupVars>>
  BY DEF MissCache, QueryTypes, SelectType, SelectNothing, typeVars
<1>3. Type(e) \in Types /\ groupTypes[Type(e)] \in Indexes \cup {NoIndex}  BY <1>1, TypeOfEvent
<1>4. /\ read' \in [Events -> GroupTypes]
      /\ \A d \in Events : read'[d] = read[d] \/ read'[d] = groupTypes
  BY DEF MissCache, QueryTypes, SelectType, SelectNothing, typeVars, TypesInv, TypeOK
<1>5. /\ index' \in [Events -> Indexes \cup {NoIndex}]
      /\ \A d \in Events \ {e} : index'[d] = index[d]
      /\ SelectNothing(e) => index'[e] = index[e]
      /\ SelectType(e) => index'[e] = groupTypes[Type(e)] /\ index'[e] # NoIndex
  BY <1>3 DEF MissCache, QueryTypes, SelectType, SelectNothing, TypeVisible, typeVars, TypesInv, TypeOK
<1>6. TypeOK'
  BY <1>1, <1>2, <1>4, <1>5 DEF TypesInv, TypeOK, groupVars, Labels, LookingUp, Upserting
<1>7. /\ \A w \in Workers : cache'[w] # NoCache => Earlier(cache[w])'
      /\ Distinct' /\ Earlier(groupTypes)' /\ ColumnsAgree'
  BY <1>2 DEF TypesInv, Distinct, Earlier, ColumnsAgree, Taken
<1>8. \A d \in Events : Earlier(read[d])'
  BY <1>2, <1>4 DEF TypesInv, Earlier
<1>9. \A d \in Events : Progress(d)'
  BY <1>1, <1>2 DEF TypesInv, Progress, LastColumn, LookingUp, Upserting
<1>10. Proposed(e)'
  <2>1. Type(e)' = Type(e)  BY <1>2 DEF Type
  <2>2. CASE SelectNothing(e)
    <3>1. Proposed(e) /\ pc[e] = "insertType" /\ groupTypes[Type(e)] = NoIndex /\ pc'[e] = "insertRow"
      BY <2>2, LabelsOK DEF TypesInv, SelectNothing, TypeVisible, Goto, Labels, LookingUp
    <3>2. QED  BY <1>2, <1>5, <2>1, <2>2, <3>1 DEF Proposed, AllTaken, Taken
  <2>3. CASE SelectType(e)
    <3>1. pc'[e] = "gotIndex"  BY <2>3, LabelsOK DEF TypesInv, SelectType, Goto
    <3>2. QED  BY <1>2, <1>3, <1>5, <2>1, <2>3, <3>1 DEF Proposed
  <2>4. CASE MissCache(e) \/ QueryTypes(e)
    <3>1. pc'[e] \in {"queryTypes", "cacheTypes"}
      BY <2>4, LabelsOK DEF TypesInv, MissCache, QueryTypes, Goto
    <3>2. QED  BY <3>1 DEF Proposed
  <2>5. QED  BY <2>2, <2>3, <2>4
<1>11. \A d \in Events \ {e} : Proposed(d)'
  BY <1>1, <1>2, <1>5 DEF TypesInv, Proposed, Type, AllTaken, Taken
<1>12. QED  BY <1>6, <1>7, <1>8, <1>9, <1>10, <1>11 DEF TypesInv

LookUpStep(e) ==
    \/ UseCache(e) \/ MissCache(e) \/ QueryTypes(e) \/ CacheTypes(e)
    \/ SelectType(e) \/ SelectNothing(e) \/ InsertType(e) \/ InsertConflicts(e) \/ DropCache(e)

UpsertStep(e) == FetchGroup(e) \/ InsertGroup(e) \/ RetryUpsert(e) \/ UpdateGroup(e)

\* A lookup leaves the groups alone, and does not by itself count as an upsert.
LookUpEffect(e) ==
    /\ pc[e] \in LookingUp
    /\ pc'[e] # "updateGroup" /\ ~Applied(e)'
    /\ \A d \in Events \ {e} : pc'[d] = pc[d] /\ columns'[d] = columns[d]
    /\ UNCHANGED <<event, groupVars>>

LEMMA OutcomeEffect ==
    ASSUME TypesInv, NEW e \in Events, pc[e] \in LookingUp, Outcome(e),
           UNCHANGED <<event, groupTypes, groupVars>>
    PROVE  LookUpEffect(e)
<1>1. CASE \E i : Answer(e, i) /\ Return(e, i) /\ UNCHANGED index
  BY <1>1, ReturnStep DEF LookUpEffect
<1>2. CASE Goto(e, "insertType") /\ UNCHANGED columns
  BY <1>2, LabelsOK DEF LookUpEffect, Goto, TypesInv, Applied
<1>3. QED  BY <1>1, <1>2 DEF Outcome

LEMMA LookUpSteps ==
    ASSUME TypesInv, NEW e \in Events, LookUpStep(e)
    PROVE  TypesInv' /\ LookUpEffect(e)
<1> DEFINE w == WorkerOf[e]
<1>1. w \in Workers /\ TypeOK /\ pc \in [Events -> Labels]
  BY GroupsOK, LabelsOK DEF TypesInv
<1>2. CASE UseCache(e)
  <2>1. pc[e] \in LookingUp /\ Earlier(cache[w])
    BY <1>1, <1>2 DEF UseCache, LookingUp, TypesInv
  <2>2. Outcome(e)  BY <1>2, <2>1, UseTypesOutcome DEF UseCache
  <2>3. /\ UNCHANGED <<event, groupTypes, read, groupVars>> /\ cache' = cache
    BY <1>2 DEF UseCache
  <2>4. QED
    BY <1>1, <2>1, <2>2, <2>3, OutcomeStep, OutcomeEffect DEF TypesInv, TypeOK
<1>3. CASE CacheTypes(e)
  <2>1. pc[e] \in LookingUp /\ Earlier(read[e])  BY <1>3 DEF CacheTypes, LookingUp, TypesInv
  <2>2. Outcome(e)  BY <1>3, <2>1, UseTypesOutcome DEF CacheTypes
  <2>3. /\ UNCHANGED <<event, groupTypes, read, groupVars>>
        /\ cache' = [cache EXCEPT ![w] = read[e]]
    BY <1>3 DEF CacheTypes
  <2>4. /\ cache' \in [Workers -> GroupTypes \cup {NoCache}]
        /\ \A v \in Workers : cache'[v] # NoCache => Earlier(cache'[v])
    BY <1>1, <2>1, <2>3 DEF TypesInv, TypeOK
  <2>5. QED  BY <2>1, <2>2, <2>3, <2>4, OutcomeStep, OutcomeEffect
<1>4. CASE InsertConflicts(e)
  <2>1. pc[e] \in LookingUp /\ Outcome(e)  BY <1>4, ConflictOutcome DEF InsertConflicts, LookingUp
  <2>2. UNCHANGED <<event, groupTypes, read, groupVars>> /\ cache' = cache
    BY <1>4 DEF InsertConflicts
  <2>3. QED  BY <1>1, <2>1, <2>2, OutcomeStep, OutcomeEffect DEF TypesInv, TypeOK
<1>5. CASE DropCache(e)
  <2>1. pc[e] \in LookingUp /\ Answer(e, index[e])
    BY <1>5 DEF DropCache, LookingUp, TypesInv, Proposed, Answer
  <2>2. Outcome(e)  BY <1>5, <2>1 DEF DropCache, Outcome
  <2>3. /\ UNCHANGED <<event, groupTypes, read, groupVars>>
        /\ cache' = [cache EXCEPT ![w] = NoCache]
    BY <1>5 DEF DropCache
  <2>4. /\ cache' \in [Workers -> GroupTypes \cup {NoCache}]
        /\ \A v \in Workers : cache'[v] # NoCache => Earlier(cache'[v])
    BY <1>1, <2>3 DEF TypesInv, TypeOK
  <2>5. QED  BY <2>1, <2>2, <2>3, <2>4, OutcomeStep, OutcomeEffect
<1>6. CASE InsertType(e)
  <2>1. LookUpEffect(e)
    BY <1>1, <1>6 DEF InsertType, LookUpEffect, LookingUp, Goto, Applied
  <2>2. QED  BY <1>6, <2>1, InsertTypeStep
<1>7. CASE MissCache(e) \/ QueryTypes(e) \/ SelectType(e) \/ SelectNothing(e)
  <2>1. LookUpEffect(e)
    BY <1>1, <1>7
       DEF MissCache, QueryTypes, SelectType, SelectNothing, LookUpEffect, LookingUp, Goto, Applied, typeVars
  <2>2. QED  BY <1>7, <2>1, OtherLookupSteps
<1>8. QED  BY <1>2, <1>3, <1>4, <1>5, <1>6, <1>7 DEF LookUpStep

-----------------------------------------------------------------------------
(* The upserts *)

\* Whoever holds the row of a group has read what is in it.
LocksHeld ==
    /\ \A g \in Groups : rowLock[g] # NoLock => /\ pc[rowLock[g]] = "updateGroup"
                                               /\ GroupOf(rowLock[g]) = g
    /\ \A e \in Events : pc[e] = "updateGroup" =>
          LET g == GroupOf(e) IN rowLock[g] = e /\ fetched[e] = groups[g] /\ HasRow(g)

IInv == TypesInv /\ LocksHeld /\ GroupsResolved

LEMMA NoGroupType == NoGroup \in GroupType
BY AbsentType DEF NoGroup, GroupType

LEMMA UpdatedType ==
    ASSUME TypeOK, NEW e \in Events, NEW p \in [Keys -> Entries]
    PROVE  Updated(e, p) \in [Keys -> Entries]
BY EventFields, CalculateUpdateType DEF Updated

LEMMA UpsertTypes ==
    ASSUME IInv, NEW e \in Events, UpsertStep(e)
    PROVE  /\ TypesInv'
           /\ pc[e] \in Upserting
           /\ \A d \in Events \ {e} : pc'[d] = pc[d]
           /\ UNCHANGED <<event, columns>>
<1>1. TypeOK /\ pc \in [Events -> Labels]  BY LabelsOK DEF IInv, TypesInv
<1>2. /\ pc[e] \in Upserting /\ pc'[e] \in Upserting \cup {"stored"} /\ pc' \in [Events -> Labels]
      /\ \A d \in Events \ {e} : pc'[d] = pc[d]
  BY <1>1 DEF UpsertStep, FetchGroup, InsertGroup, RetryUpsert, UpdateGroup, Goto, Upserting, Labels
<1>3. UNCHANGED <<event, groupTypes, cache, read, index, columns>>
  BY DEF UpsertStep, FetchGroup, InsertGroup, RetryUpsert, UpdateGroup, typeVars
<1>4. GroupOf(e) \in Groups  BY <1>2, GroupOfEvent DEF IInv
<1>5. /\ groups[GroupOf(e)] \in GroupType
      /\ fetched[e] \in GroupType /\ fetched[e].props \in [Keys -> Entries] /\ fetched[e].version \in Nat
      /\ NoGroup.props \in [Keys -> Entries]
  BY <1>1, <1>4, NoGroupType DEF TypeOK, GroupType
<1>6. /\ [props |-> Updated(e, NoGroup.props), version |-> 1] \in GroupType
      /\ [props |-> Updated(e, fetched[e].props), version |-> fetched[e].version + 1] \in GroupType
  BY <1>1, <1>5, UpdatedType DEF GroupType
<1>7. /\ groups' \in [Groups -> GroupType]
      /\ rowLock' \in [Groups -> Events \cup {NoLock}]
      /\ fetched' \in [Events -> GroupType]
  <2>1. CASE FetchGroup(e)  BY <1>1, <1>5, <2>1 DEF FetchGroup, TypeOK
  <2>2. CASE InsertGroup(e)  BY <1>1, <1>6, <2>2 DEF InsertGroup, TypeOK
  <2>3. CASE RetryUpsert(e)  BY <1>1, <2>3 DEF RetryUpsert, groupVars, TypeOK
  <2>4. CASE UpdateGroup(e)  BY <1>1, <1>6, <2>4 DEF UpdateGroup, LockAfter, TypeOK
  <2>5. QED  BY <2>1, <2>2, <2>3, <2>4 DEF UpsertStep
<1>8. TypeOK'  BY <1>1, <1>2, <1>3, <1>7 DEF TypeOK, Labels, LookingUp, Upserting
<1>9. \A d \in Events : Progress(d)'
  BY <1>2, <1>3 DEF IInv, TypesInv, Progress, LastColumn, LookingUp, Upserting
<1>10. \A d \in Events : Proposed(d)'
  BY <1>2, <1>3 DEF IInv, TypesInv, Proposed, Type, AllTaken, Taken, Upserting
<1>11. QED
  BY <1>2, <1>3, <1>8, <1>9, <1>10 DEF IInv, TypesInv, Distinct, Earlier, ColumnsAgree, Taken

\* One key, one upsert: the latest value so far and the event's give the new latest.
LEMMA ResolvedStep ==
    ASSUME IInv, NEW e \in Events, NEW g \in Groups, NEW k \in Keys, g = GroupOf(e),
           pc[e] \in {"insertGroup", "updateGroup"}, pc'[e] = "stored",
           \A d \in Events \ {e} : pc'[d] = pc[d],
           UNCHANGED <<event, columns>>,
           NEW p \in [Keys -> Entries], p[k] = groups[g].props[k],
           groups'[g].props[k] = Updated(e, p)[k]
    PROVE  Resolved(g, k)'
<1> DEFINE ts == event[e].timestamp
           old == groups[g].props[k]
           new == groups'[g].props[k]
<1>1. ts \in Stamps /\ ts \in Nat /\ ts > 0 /\ NoEvent # e
      /\ \A d \in Events : event[d].timestamp \in Nat /\ event[d].timestamp > 0 /\ d # NoEvent
  BY EventFields, GroupsOK DEF IInv, TypesInv, Stamps, Epoch
<1>2. event[e].key # NoKey /\ LastColumn(e) # NoIndex
  BY DEF IInv, TypesInv, Progress, Upserting
<1>3. AppliedTo(g)' = AppliedTo(g) \cup {e} /\ e \notin AppliedTo(g)
  BY <1>2 DEF AppliedTo, Applied, GroupOf, LastColumn
<1>4. Setting(g, k)' = IF k \in event[e].set THEN Setting(g, k) \cup {e} ELSE Setting(g, k)
  BY <1>3 DEF Setting, AppliedTo
<1>5. Setting(g, k) \subseteq Events /\ e \notin Setting(g, k)  BY <1>3 DEF Setting, AppliedTo
<1>6. Resolved(g, k) /\ old \in Entries  BY DEF IInv, GroupsResolved
<1>7. new = IF k \in event[e].set /\ (~Exists(old) \/ old.op = "set_once" \/ old.time < ts)
            THEN Written(e, "set", ts) ELSE old
  BY <1>1, CalculateUpdateSet DEF Updated
<1>8. CASE Setting(g, k) = {} /\ old = Absent
  <2>1. CASE k \in event[e].set
    <3>1. new = Written(e, "set", ts)  BY <1>7, <1>8, <2>1 DEF Exists, Absent, Written
    <3>2. QED  BY <1>1, <1>4, <1>8, <2>1, <3>1 DEF Resolved, Written
  <2>2. CASE k \notin event[e].set
    BY <1>4, <1>7, <1>8, <2>2 DEF Resolved
  <2>3. QED  BY <2>1, <2>2
<1>9. CASE /\ old.by \in Setting(g, k) /\ old.op = "set" /\ old.time = event[old.by].timestamp
           /\ \A d \in Setting(g, k) : event[d].timestamp <= old.time
  <2>1. old.time \in Nat /\ Exists(old) /\ old.op # "set_once"  BY <1>1, <1>5, <1>9 DEF Exists
  <2>2. CASE k \in event[e].set /\ old.time < ts
    <3>1. new = Written(e, "set", ts)  BY <1>7, <2>2
    <3>2. \A d \in Setting(g, k) \cup {e} : event[d].timestamp <= ts
      BY <1>1, <1>5, <1>9, <2>1, <2>2
    <3>3. QED  BY <1>4, <2>2, <3>1, <3>2 DEF Resolved, Written
  <2>3. CASE ~(k \in event[e].set /\ old.time < ts)
    <3>1. new = old  BY <1>7, <2>1, <2>3
    <3>2. \A d \in Setting(g, k)' : event[d].timestamp <= old.time
      BY <1>1, <1>4, <1>9, <2>1, <2>3
    <3>3. QED  BY <1>4, <1>9, <3>1, <3>2 DEF Resolved
  <2>4. QED  BY <2>2, <2>3
<1>10. QED  BY <1>6, <1>8, <1>9 DEF Resolved

\* A group that no step of its own events touches stays resolved.
LEMMA ResolvedUnchanged ==
    ASSUME GroupsResolved, NEW g \in Groups, groups'[g] = groups[g], AppliedTo(g)' = AppliedTo(g),
           UNCHANGED event
    PROVE  (HasRow(g) <=> AppliedTo(g) # {})' /\ \A k \in Keys : Resolved(g, k)'
BY DEF GroupsResolved, HasRow, Resolved, Setting

LEMMA InsertGroupStep ==
    ASSUME IInv, NEW e \in Events, InsertGroup(e)
    PROVE  LocksHeld' /\ GroupsResolved'
<1>1. /\ TypesInv' /\ pc[e] = "insertGroup" /\ pc'[e] = "stored" /\ pc[e] \in Upserting
      /\ \A d \in Events \ {e} : pc'[d] = pc[d]
      /\ UNCHANGED <<event, columns>>
  BY UpsertTypes, LabelsOK DEF IInv, TypesInv, InsertGroup, UpsertStep, Goto, Upserting
<1>0. PICK g \in Groups : g = GroupOf(e)  BY <1>1, GroupOfEvent DEF IInv
<1>2. g \in Groups /\ ~HasRow(g)  BY <1>0 DEF InsertGroup, InsertAllowed
<1>3. /\ groups'[g] = [props |-> Updated(e, NoGroup.props), version |-> 1]
      /\ \A h \in Groups \ {g} : groups'[h] = groups[h]
  BY <1>0, <1>2 DEF InsertGroup, IInv, TypesInv, TypeOK
<1>4. \A d \in Events : GroupOf(d)' = GroupOf(d)  BY <1>1 DEF GroupOf, LastColumn
<1>5. event[e].key # NoKey /\ LastColumn(e) # NoIndex
  BY <1>1 DEF IInv, TypesInv, Progress, Upserting
<1>6. \A h \in Groups \ {g} : AppliedTo(h)' = AppliedTo(h)
  BY <1>0, <1>1, <1>4 DEF AppliedTo, Applied, LastColumn
<1>7. AppliedTo(g) = {} /\ AppliedTo(g)' = {e}
  BY <1>0, <1>1, <1>2, <1>4, <1>5 DEF AppliedTo, Applied, LastColumn, IInv, GroupsResolved
<1>8. LocksHeld'
  <2>1. rowLock' = rowLock /\ fetched' = fetched  BY DEF InsertGroup
  <2>2. \A h \in Groups : rowLock[h] # NoLock => rowLock[h] # e
    BY <1>1 DEF IInv, LocksHeld
  <2>3. \A h \in Groups : rowLock'[h] # NoLock => pc'[rowLock'[h]] = "updateGroup" /\ GroupOf(rowLock[h])' = h
    BY <1>1, <1>4, <2>1, <2>2 DEF IInv, LocksHeld, TypesInv, TypeOK
  <2>4. ASSUME NEW d \in Events, pc'[d] = "updateGroup"
        PROVE  (LET h == GroupOf(d) IN rowLock[h] = d /\ fetched[d] = groups[h] /\ HasRow(h))'
    <3>1. d # e /\ pc[d] = "updateGroup" /\ pc[d] \in Upserting  BY <1>1, <2>4 DEF Upserting
    <3>2. GroupOf(d) \in Groups /\ GroupOf(d) # g
      BY <1>2, <3>1, GroupOfEvent DEF IInv, LocksHeld
    <3>3. QED  BY <1>3, <1>4, <2>1, <3>1, <3>2 DEF IInv, LocksHeld, HasRow
  <2>5. QED  BY <2>1, <2>3, <2>4 DEF LocksHeld
<1>9. \A k \in Keys : Resolved(g, k)'
  <2> SUFFICES ASSUME NEW k \in Keys PROVE Resolved(g, k)'
    OBVIOUS
  <2>1. groups[g].props[k] = Absent
    BY <1>2, <1>7 DEF IInv, GroupsResolved, Resolved, Setting
  <2>2. NoGroup.props \in [Keys -> Entries] /\ NoGroup.props[k] = Absent
    BY AbsentType DEF NoGroup
  <2>3. QED  BY <1>0, <1>1, <1>2, <1>3, <2>1, <2>2, ResolvedStep
<1>10. HasRow(g)'  BY <1>3 DEF HasRow
<1>11. QED
  BY <1>1, <1>3, <1>6, <1>7, <1>8, <1>9, <1>10, ResolvedUnchanged DEF GroupsResolved, IInv

LEMMA UpdateGroupStep ==
    ASSUME IInv, NEW e \in Events, UpdateGroup(e)
    PROVE  LocksHeld' /\ GroupsResolved'
<1>1. /\ TypesInv' /\ pc[e] = "updateGroup" /\ pc'[e] = "stored" /\ pc[e] \in Upserting
      /\ \A d \in Events \ {e} : pc'[d] = pc[d]
      /\ UNCHANGED <<event, columns>>
  BY UpsertTypes, LabelsOK DEF IInv, TypesInv, UpdateGroup, UpsertStep, Goto, Upserting
<1>2. PICK g \in Groups : g = GroupOf(e)  BY <1>1, GroupOfEvent DEF IInv
<1>3. rowLock[g] = e /\ fetched[e] = groups[g] /\ HasRow(g)
  BY <1>1, <1>2 DEF IInv, LocksHeld
<1>4. groups[g] \in GroupType /\ groups[g].props \in [Keys -> Entries] /\ groups[g].version \in Nat
  BY DEF IInv, TypesInv, TypeOK, GroupType
<1> DEFINE props == Updated(e, groups[g].props)
<1>5. /\ groups'[g].props = props /\ HasRow(g)'
      /\ \A h \in Groups \ {g} : groups'[h] = groups[h]
  BY <1>2, <1>3, <1>4 DEF UpdateGroup, HasRow, IInv, TypesInv, TypeOK
<1>6. rowLock' = [rowLock EXCEPT ![g] = NoLock] /\ fetched' = fetched
  BY <1>2 DEF UpdateGroup, LockAfter
<1>7. \A d \in Events : GroupOf(d)' = GroupOf(d)  BY <1>1 DEF GroupOf, LastColumn
<1>8. event[e].key # NoKey /\ LastColumn(e) # NoIndex
  BY <1>1 DEF IInv, TypesInv, Progress, Upserting
<1>9. \A h \in Groups \ {g} : AppliedTo(h)' = AppliedTo(h)
  BY <1>1, <1>2, <1>7 DEF AppliedTo, Applied, LastColumn
<1>10. AppliedTo(g)' # {}
  BY <1>1, <1>2, <1>7, <1>8 DEF AppliedTo, Applied, LastColumn
<1>11. LocksHeld'
  <2>1. \A h \in Groups : rowLock'[h] # NoLock => h # g /\ rowLock'[h] = rowLock[h]
    BY <1>6 DEF IInv, TypesInv, TypeOK
  <2>2. \A h \in Groups : rowLock'[h] # NoLock => pc'[rowLock'[h]] = "updateGroup" /\ GroupOf(rowLock[h])' = h
    BY <1>1, <1>2, <1>7, <2>1 DEF IInv, LocksHeld, TypesInv, TypeOK
  <2>3. ASSUME NEW d \in Events, pc'[d] = "updateGroup"
        PROVE  (LET h == GroupOf(d) IN rowLock[h] = d /\ fetched[d] = groups[h] /\ HasRow(h))'
    <3>1. d # e /\ pc[d] = "updateGroup" /\ pc[d] \in Upserting  BY <1>1, <2>3 DEF Upserting
    <3>2. GroupOf(d) \in Groups /\ GroupOf(d) # g
      BY <1>3, <3>1, GroupOfEvent DEF IInv, LocksHeld
    <3>3. QED
      BY <1>5, <1>6, <1>7, <3>1, <3>2 DEF IInv, LocksHeld, HasRow, TypesInv, TypeOK
  <2>4. QED  BY <2>1, <2>2, <2>3 DEF LocksHeld
<1>12. \A k \in Keys : Resolved(g, k)'
  BY <1>1, <1>2, <1>4, <1>5, ResolvedStep
<1>13. QED
  BY <1>1, <1>5, <1>9, <1>10, <1>11, <1>12, ResolvedUnchanged DEF GroupsResolved, IInv

\* Reading a group, or starting over, upserts nothing.
LEMMA FetchGroupStep ==
    ASSUME IInv, NEW e \in Events, FetchGroup(e) \/ RetryUpsert(e)
    PROVE  LocksHeld' /\ GroupsResolved'
<1>1. /\ TypesInv' /\ pc[e] \in {"fetchGroup", "insertGroup"} /\ pc[e] \in Upserting
      /\ pc'[e] \in {"fetchGroup", "insertGroup", "updateGroup"}
      /\ \A d \in Events \ {e} : pc'[d] = pc[d]
      /\ UNCHANGED <<event, columns, groups>>
  BY UpsertTypes, LabelsOK
     DEF IInv, TypesInv, FetchGroup, RetryUpsert, UpsertStep, Goto, Upserting, groupVars
<1>2. PICK g \in Groups : g = GroupOf(e)  BY <1>1, GroupOfEvent DEF IInv
<1>3. \A d \in Events : GroupOf(d)' = GroupOf(d)  BY <1>1 DEF GroupOf, LastColumn
<1>4. \A h \in Groups : AppliedTo(h)' = AppliedTo(h)
  BY <1>1, <1>3 DEF AppliedTo, Applied, LastColumn
<1>5. GroupsResolved'
  BY <1>1, <1>4, ResolvedUnchanged DEF GroupsResolved, IInv
<1>6. CASE UNCHANGED <<rowLock, fetched>> /\ pc'[e] # "updateGroup"
  <2>1. \A h \in Groups : rowLock[h] # NoLock => rowLock[h] # e /\ rowLock[h] \in Events
    BY <1>1 DEF IInv, LocksHeld, TypesInv, TypeOK
  <2>2. LocksHeld'  BY <1>1, <1>3, <1>6, <2>1 DEF IInv, LocksHeld, HasRow
  <2>3. QED  BY <1>5, <2>2
<1>7. CASE /\ HasRow(g) /\ rowLock[g] = NoLock /\ pc'[e] = "updateGroup"
           /\ rowLock' = [rowLock EXCEPT ![g] = e]
           /\ fetched' = [fetched EXCEPT ![e] = groups[g]]
  <2>1. /\ rowLock'[g] = e /\ fetched'[e] = groups[g]
        /\ \A h \in Groups \ {g} : rowLock'[h] = rowLock[h]
        /\ \A d \in Events \ {e} : fetched'[d] = fetched[d]
    BY <1>7 DEF IInv, TypesInv, TypeOK
  <2>2. \A h \in Groups : rowLock'[h] # NoLock => pc'[rowLock'[h]] = "updateGroup" /\ GroupOf(rowLock'[h]) = h
    BY <1>1, <1>2, <1>7, <2>1 DEF IInv, LocksHeld, TypesInv, TypeOK
  <2>3. \A h \in Groups : rowLock'[h] \in Events \cup {NoLock}
    BY <1>1 DEF TypesInv, TypeOK
  <2>4. ASSUME NEW d \in Events, pc'[d] = "updateGroup"
        PROVE  (LET h == GroupOf(d) IN rowLock[h] = d /\ fetched[d] = groups[h] /\ HasRow(h))'
    <3>1. CASE d = e
      BY <1>1, <1>2, <1>3, <1>7, <2>1, <3>1 DEF HasRow
    <3>2. CASE d # e
      <4>1. pc[d] = "updateGroup" /\ pc[d] \in Upserting  BY <1>1, <2>4, <3>2 DEF Upserting
      <4>2. GroupOf(d) \in Groups /\ GroupOf(d) # g
        BY <1>7, <4>1, GroupOfEvent, GroupsOK DEF IInv, LocksHeld
      <4>3. QED  BY <1>1, <1>3, <2>1, <3>2, <4>1, <4>2 DEF IInv, LocksHeld, HasRow
    <3>3. QED  BY <3>1, <3>2
  <2>5. LocksHeld'  BY <1>1, <1>3, <2>2, <2>3, <2>4 DEF LocksHeld, GroupOf, LastColumn
  <2>6. QED  BY <1>5, <2>5
<1>8. QED
  BY <1>2, <1>6, <1>7, LabelsOK
     DEF FetchGroup, RetryUpsert, RowFree, Goto, groupVars, IInv, TypesInv

-----------------------------------------------------------------------------
LEMMA InitInv == Init => IInv
<1> SUFFICES ASSUME Init PROVE IInv
  OBVIOUS
<1> USE DEF Init
<1>1. event \in [Events -> EventType]  BY GroupsOK
<1>2. \A e \in Events : /\ pc[e] = "lookUp" /\ columns[e] = <<>> /\ Len(columns[e]) = 0
                        /\ DOMAIN columns[e] = {}
                        /\ event[e].types \in Seq(Types) /\ event[e].types # <<>>
  BY <1>1 DEF EventType
<1>3. \A e \in Events : Progress(e) /\ Proposed(e) /\ ~Applied(e)
  <2>1. \A e \in Events : Len(event[e].types) > 0  BY <1>2
  <2>2. QED  BY <1>2, <2>1 DEF Progress, Proposed, Applied, LookingUp, Upserting
<1>4. TypeOK
  <2>1. groupTypes \in GroupTypes /\ read \in [Events -> GroupTypes]  BY DEF NoTypes, GroupTypes
  <2>2. groups \in [Groups -> GroupType] /\ fetched \in [Events -> GroupType]  BY NoGroupType
  <2>3. columns \in [Events -> Seq(Indexes \cup {NoIndex})]  OBVIOUS
  <2>4. QED  BY <1>1, <2>1, <2>2, <2>3 DEF TypeOK
<1>5. Earlier(NoTypes)
  <2>1. Indexed(NoTypes) = {}  BY DEF Indexed, NoTypes
  <2>2. IsFiniteSet({}) /\ Cardinality({}) = 0  BY FS_EmptySet
  <2>3. Numbered(NoTypes)  BY <2>1, <2>2 DEF Numbered
  <2>4. QED  BY <2>1, <2>2, <2>3 DEF Earlier, NoTypes, GroupTypes
<1>6. TypesInv
  BY <1>2, <1>3, <1>4, <1>5 DEF TypesInv, Distinct, NoTypes, ColumnsAgree
<1>7. LocksHeld  BY <1>2 DEF LocksHeld
<1>8. GroupsResolved
  BY <1>3 DEF GroupsResolved, AppliedTo, HasRow, NoGroup, Resolved, Setting
<1>9. QED  BY <1>6, <1>7, <1>8 DEF IInv

LEMMA NextInv == IInv /\ [Next]_vars => IInv'
<1> SUFFICES ASSUME IInv, [Next]_vars PROVE IInv'
  OBVIOUS
<1>1. ASSUME NEW e \in Events, LookUpStep(e) PROVE IInv'
  <2>1. TypesInv' /\ LookUpEffect(e)  BY <1>1, LookUpSteps DEF IInv
  <2>2. ~Applied(e) /\ ~Applied(e)' /\ pc[e] # "updateGroup" /\ pc'[e] # "updateGroup"
    BY <2>1 DEF LookUpEffect, Applied, LookingUp
  <2>3. /\ UNCHANGED <<event, groups, rowLock, fetched>>
        /\ \A d \in Events \ {e} : /\ pc'[d] = pc[d] /\ GroupOf(d)' = GroupOf(d)
                                   /\ Applied(d)' = Applied(d)
    BY <2>1 DEF LookUpEffect, groupVars, GroupOf, LastColumn, Applied
  <2>4. \A g \in Groups : AppliedTo(g)' = AppliedTo(g)
    BY <2>2, <2>3 DEF AppliedTo
  <2>5. GroupsResolved'  BY <2>3, <2>4, ResolvedUnchanged DEF GroupsResolved, IInv
  <2>6. \A g \in Groups : rowLock[g] # NoLock => rowLock[g] # e /\ rowLock[g] \in Events
    BY <2>2 DEF IInv, LocksHeld, TypesInv, TypeOK
  <2>7. LocksHeld'  BY <2>2, <2>3, <2>6 DEF IInv, LocksHeld, HasRow
  <2>8. QED  BY <2>1, <2>5, <2>7 DEF IInv
<1>2. ASSUME NEW e \in Events, UpsertStep(e) PROVE IInv'
  BY <1>2, UpsertTypes, FetchGroupStep, InsertGroupStep, UpdateGroupStep DEF UpsertStep, IInv
<1>3. CASE UNCHANGED vars
  <2>1. TypesInv'
    BY <1>3 DEF vars, typeVars, groupVars, IInv, TypesInv, TypeOK, Distinct, Earlier, ColumnsAgree, Taken,
                Progress, LastColumn, Proposed, AllTaken, Type
  <2>2. LocksHeld' /\ GroupsResolved'
    BY <1>3 DEF vars, typeVars, groupVars, IInv, LocksHeld, GroupOf, LastColumn, HasRow,
                GroupsResolved, AppliedTo, Applied, Resolved, Setting
  <2>3. QED  BY <2>1, <2>2 DEF IInv
<1>4. QED  BY <1>1, <1>2, <1>3 DEF Next, EventStep, AllStored, LookUpStep, UpsertStep

THEOREM Invariance == Spec => []IInv
BY InitInv, NextInv, PTL DEF Spec

\* Every variable keeps its type.
THEOREM TypeCorrect == Spec => []TypeOK
<1>1. IInv => TypeOK  BY DEF IInv, TypesInv
<1>2. QED  BY <1>1, Invariance, PTL

\* The indexes given to a team's group types have no gaps, whatever the workers'
\* caches hold when they propose one.
THEOREM GroupTypesNumbered == Spec => []TypesNumbered
<1>1. IInv => TypesNumbered  BY DEF IInv, TypesInv, Earlier, TypesNumbered
<1>2. QED  BY <1>1, Invariance, PTL

\* The columns of an event are those of its group types, and a refusal means that
\* the indexes are used up.
THEOREM ColumnsCorrect == Spec => []ColumnsAgree
<1>1. IInv => ColumnsAgree  BY DEF IInv, TypesInv
<1>2. QED  BY <1>1, Invariance, PTL

\* Every property of a group has its latest value.
THEOREM GroupsCorrect == Spec => []GroupsResolved
<1>1. IInv => GroupsResolved  BY DEF IInv
<1>2. QED  BY <1>1, Invariance, PTL

\* A version belongs to one state of a group.
THEOREM VersionsUnique == Spec => VersionsNotReused
<1> DEFINE Versioned == \A g \in Groups : groups'[g] # groups[g] => groups'[g].version = groups[g].version + 1
<1>1. ASSUME IInv, [Next]_vars PROVE [Versioned]_vars
  <2>1. ASSUME NEW e \in Events, LookUpStep(e) PROVE Versioned
    BY <1>1, <2>1, LookUpSteps DEF IInv, LookUpEffect, groupVars
  <2>2. ASSUME NEW e \in Events, InsertGroup(e) PROVE Versioned
    <3>1. pc[e] \in Upserting  BY <2>2 DEF InsertGroup, Upserting
    <3>2. GroupOf(e) \in Groups  BY <1>1, <3>1, GroupOfEvent DEF IInv
    <3>3. groups[GroupOf(e)].version = 0  BY <2>2 DEF InsertGroup, InsertAllowed, HasRow
    <3>4. QED  BY <1>1, <2>2, <3>2, <3>3 DEF InsertGroup, IInv, TypesInv, TypeOK
  <2>3. ASSUME NEW e \in Events, UpdateGroup(e) PROVE Versioned
    <3>1. pc[e] \in Upserting /\ pc[e] = "updateGroup"  BY <2>3 DEF UpdateGroup, Upserting
    <3>2. GroupOf(e) \in Groups /\ fetched[e] = groups[GroupOf(e)]
      BY <1>1, <3>1, GroupOfEvent DEF IInv, LocksHeld
    <3>3. QED  BY <1>1, <2>3, <3>2 DEF UpdateGroup, IInv, TypesInv, TypeOK
  <2>4. ASSUME NEW e \in Events, FetchGroup(e) \/ RetryUpsert(e) PROVE Versioned
    BY <2>4 DEF FetchGroup, RetryUpsert, groupVars
  <2>5. CASE UNCHANGED vars  BY <2>5
  <2>6. QED
    BY <1>1, <2>1, <2>2, <2>3, <2>4, <2>5 DEF Next, EventStep, AllStored, LookUpStep
<1>2. QED  BY <1>1, Invariance, PTL DEF Spec, VersionsNotReused
-----------------------------------------------------------------------------
(* The refinement of GroupStore *)

\* The store's operators on properties are those of this module.
LEMMA SameUpdate ==
    /\ Store!Absent = Absent
    /\ \A p, e, set, once, ts :
          Store!CalculateUpdate(p, e, set, once, ts) = CalculateUpdate(p, e, set, once, ts)
BY DEF Store!CalculateUpdate, Store!SetApplies, Store!OnceApplies, Store!Exists, Store!Written,
       Store!Absent, Store!Epoch, CalculateUpdate, SetApplies, OnceApplies, Exists, Written, Absent, Epoch

UpsertedEvents == {e \in Events : Applied(e)}

\* While an event upserts, its group is the one in the column of its last type.
LEMMA SameGroup ==
    ASSUME TypesInv, NEW e \in Events, pc[e] \in Upserting
    PROVE  Store!GroupOf(e) = GroupOf(e) /\ ~Applied(e)
<1> DEFINE n == Len(event[e].types)
<1>1. pc[e] \notin LookingUp /\ pc[e] # "stored"  BY DEF Upserting, LookingUp
<1>2. Len(columns[e]) = n /\ n \in Nat /\ n > 0 /\ LastColumn(e) # NoIndex
  BY <1>1, EventFields DEF TypesInv, Progress
<1>3. n \in DOMAIN columns[e]  BY <1>2, EventFields DEF TypesInv
<1>4. columns[e][n] = groupTypes[event[e].types[n]]
  BY <1>2, <1>3 DEF TypesInv, ColumnsAgree, LastColumn
<1>5. QED  BY <1>1, <1>2, <1>4 DEF Store!GroupOf, GroupOf, LastColumn, Applied

\* The step that stores e is the only one that makes it upserted.
LEMMA UpsertedBy ==
    ASSUME IInv, NEW e \in Events, InsertGroup(e) \/ UpdateGroup(e)
    PROVE  UpsertedEvents' = UpsertedEvents \cup {e} /\ e \notin UpsertedEvents
<1>1. /\ pc[e] \in Upserting /\ pc'[e] = "stored"
      /\ \A d \in Events \ {e} : pc'[d] = pc[d]
      /\ UNCHANGED <<event, columns>>
  BY UpsertTypes, LabelsOK DEF IInv, TypesInv, InsertGroup, UpdateGroup, UpsertStep, Goto, Upserting
<1>2. event[e].key # NoKey /\ LastColumn(e) # NoIndex /\ pc[e] # "stored"
  BY <1>1 DEF IInv, TypesInv, Progress, Upserting
<1>3. QED  BY <1>1, <1>2 DEF UpsertedEvents, Applied, LastColumn

\* A step that stores no upsert changes the upserted events as little as the groups.
LEMMA NotUpserted ==
    ASSUME IInv, NEW e \in Events, LookUpStep(e) \/ FetchGroup(e) \/ RetryUpsert(e)
    PROVE  UNCHANGED <<event, groups>> /\ UpsertedEvents' = UpsertedEvents
<1>1. CASE LookUpStep(e)
  <2>1. LookUpEffect(e)  BY <1>1, LookUpSteps DEF IInv
  <2>2. ~Applied(e)  BY <2>1 DEF LookUpEffect, Applied, LookingUp
  <2>3. QED  BY <2>1, <2>2 DEF LookUpEffect, groupVars, UpsertedEvents, Applied, LastColumn
<1>2. CASE FetchGroup(e) \/ RetryUpsert(e)
  <2>1. /\ pc[e] # "stored" /\ pc'[e] # "stored"
        /\ \A d \in Events \ {e} : pc'[d] = pc[d]
        /\ UNCHANGED <<event, columns, groups>>
    BY <1>2, UpsertTypes, LabelsOK
       DEF IInv, TypesInv, FetchGroup, RetryUpsert, UpsertStep, Goto, groupVars
  <2>2. QED  BY <2>1 DEF UpsertedEvents, Applied, LastColumn
<1>3. QED  BY <1>1, <1>2

LEMMA InitRefines == Init => Store!StoreInit
<1> SUFFICES ASSUME Init PROVE Store!StoreInit
  OBVIOUS
<1>1. UpsertedEvents = {}  BY DEF Init, UpsertedEvents, Applied
<1>2. QED
  BY <1>1, SameUpdate DEF Init, NoTypes, NoGroup, Groups, Indexes, UpsertedEvents, Store!StoreInit

LEMMA RegisterRefines ==
    ASSUME IInv, NEW e \in Events, InsertType(e)
    PROVE  Store!Register(Type(e)) /\ Type(e) \in Types
<1>1. /\ index[e] = Cardinality(Indexed(groupTypes)) /\ index[e] \in Indexes
      /\ Type(e) \in Types /\ groupTypes[Type(e)] = NoIndex
  BY InsertsNext DEF IInv, InsertType
<1>2. {groupTypes[t] : t \in Types} \ {NoIndex} = 0 .. index[e] - 1
  BY <1>1 DEF IInv, TypesInv, Earlier, Numbered, Indexed
<1>3. UNCHANGED <<event, groups>> /\ UpsertedEvents' = UpsertedEvents
  BY NotUpserted DEF LookUpStep
<1>4. QED
  BY <1>1, <1>2, <1>3 DEF Store!Register, InsertType, Indexes, UpsertedEvents

LEMMA UpsertRefines ==
    ASSUME IInv, NEW e \in Events, InsertGroup(e) \/ UpdateGroup(e)
    PROVE  Store!Upsert(e)
<1>1. pc[e] \in Upserting  BY DEF InsertGroup, UpdateGroup, Upserting
<1>0. PICK g \in Groups : g = GroupOf(e)  BY <1>1, GroupOfEvent DEF IInv
<1>2. Store!GroupOf(e) = g  BY <1>0, <1>1, SameGroup DEF IInv
<1>3. UpsertedEvents' = UpsertedEvents \cup {e} /\ e \notin UpsertedEvents  BY UpsertedBy
<1>4. /\ groups \in [Groups -> GroupType] /\ groups[g].version \in Nat
      /\ groups[g] = [props |-> groups[g].props, version |-> groups[g].version]
  BY DEF IInv, TypesInv, TypeOK, GroupType
<1> DEFINE props == Updated(e, groups[g].props)
<1>5. Store!UpToDate(e, groups[g]) =
        IF groups[g].version = 0 \/ props # groups[g].props
        THEN [props |-> props, version |-> groups[g].version + 1] ELSE groups[g]
  BY SameUpdate DEF Store!UpToDate, Updated
<1>6. groups' = [groups EXCEPT ![g] = Store!UpToDate(e, groups[g])]
  <2>1. CASE InsertGroup(e)
    <3>1. groups[g].version = 0  BY <1>0, <2>1 DEF InsertGroup, InsertAllowed, HasRow
    <3>2. groups[g].props = NoGroup.props
      <4>1. \A k \in Keys : groups[g].props[k] = Absent
        BY <1>0, <3>1 DEF IInv, GroupsResolved, HasRow, Resolved, Setting
      <4>2. groups[g].props \in [Keys -> Entries]  BY <1>4 DEF GroupType
      <4>3. QED  BY <4>1, <4>2 DEF NoGroup
    <3>3. groups' = [groups EXCEPT ![g] = [props |-> props, version |-> 1]]
      BY <1>0, <2>1, <3>2 DEF InsertGroup
    <3>4. QED  BY <1>5, <3>1, <3>3
  <2>2. CASE UpdateGroup(e)
    <3>1. fetched[e] = groups[g] /\ groups[g].version # 0
      BY <1>0, <2>2 DEF UpdateGroup, IInv, LocksHeld, HasRow
    <3>2. CASE props # groups[g].props
      BY <1>0, <1>5, <2>2, <3>1, <3>2 DEF UpdateGroup
    <3>3. CASE props = groups[g].props
      <4>1. groups' = groups  BY <1>0, <2>2, <3>1, <3>3 DEF UpdateGroup
      <4>2. Store!UpToDate(e, groups[g]) = groups[g]  BY <1>5, <3>1, <3>3
      <4>3. QED  BY <1>4, <4>1, <4>2
    <3>4. QED  BY <3>2, <3>3
  <2>3. QED  BY <2>1, <2>2
<1>7. UNCHANGED <<event, groupTypes>>  BY DEF InsertGroup, UpdateGroup, typeVars
<1>8. g \in DOMAIN groups  BY <1>4
<1>9. QED  BY <1>2, <1>3, <1>6, <1>7, <1>8 DEF Store!Upsert, UpsertedEvents

\* The events of all workers amount to registrations and upserts one at a time.
THEOREM Refinement == Spec => ImplementsStore
<1>1. ASSUME IInv, [Next]_vars PROVE [Store!StoreNext]_(Store!storeVars)
  <2>1. ASSUME NEW e \in Events, InsertType(e) PROVE Store!StoreNext
    BY <1>1, <2>1, RegisterRefines DEF Store!StoreNext
  <2>2. ASSUME NEW e \in Events, InsertGroup(e) \/ UpdateGroup(e) PROVE Store!StoreNext
    BY <1>1, <2>2, UpsertRefines DEF Store!StoreNext
  <2>3. ASSUME NEW e \in Events,
               \/ UseCache(e) \/ MissCache(e) \/ QueryTypes(e) \/ CacheTypes(e)
               \/ SelectType(e) \/ SelectNothing(e) \/ InsertConflicts(e) \/ DropCache(e)
               \/ FetchGroup(e) \/ RetryUpsert(e)
        PROVE  UNCHANGED Store!storeVars
    <3>1. UNCHANGED groupTypes
      BY <2>3 DEF UseCache, MissCache, QueryTypes, CacheTypes, SelectType, SelectNothing,
                  InsertConflicts, DropCache, FetchGroup, RetryUpsert, typeVars
    <3>2. UNCHANGED <<event, groups>> /\ UpsertedEvents' = UpsertedEvents
      BY <1>1, <2>3, NotUpserted DEF LookUpStep
    <3>3. QED  BY <3>1, <3>2 DEF Store!storeVars, UpsertedEvents
  <2>4. CASE UNCHANGED vars
    BY <2>4 DEF vars, typeVars, groupVars, Store!storeVars, Applied, LastColumn
  <2>5. QED
    BY <1>1, <2>1, <2>2, <2>3, <2>4 DEF Next, EventStep, AllStored
<1>2. QED  BY <1>1, InitRefines, Invariance, PTL DEF Spec, ImplementsStore, Store!StoreSpec
=============================================================================

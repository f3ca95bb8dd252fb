----------------------- MODULE RetryableRequest_proofs -----------------------
(***************************************************************************)
(* Proofs about RetryableRequest, for any number of attempts and a body of *)
(* any length: attempts send it intact, and it is closed after its last    *)
(* use.  BodyInv is inductive; each part of it is preserved by every step. *)
(***************************************************************************)
EXTENDS RetryableRequest, FiniteSetTheorems, TLAPS

\* There are finitely many attempts, so that users can be counted.
LEMMA UsersFinite ==
  ASSUME TypeOK
  PROVE  /\ IsFiniteSet(Open) /\ Cardinality(Open) \in Nat
         /\ IsFiniteSet(releasing) /\ Cardinality(releasing) \in Nat
<1>1. IsFiniteSet(Attempts)
  BY FS_Interval, RetryableRequestAssumption DEF Attempts
<1>2. IsFiniteSet(Open) /\ IsFiniteSet(releasing)
  BY <1>1, FS_Subset DEF TypeOK, Open
<1> QED
  BY <1>2, FS_CardinalityType

\* While there is a user the count is positive, and the body open.
LEMMA UsersPositive ==
  ASSUME BodyInv, \/ pc # "returned"
                  \/ Open # {}
                  \/ releasing # {}
  PROVE  ref > 0 /\ closes = 0
<1>1. TypeOK /\ ref = Users /\ closes = IF ref = 0 THEN 1 ELSE 0
  BY DEF BodyInv, Counted
<1>2. Open # {} => Cardinality(Open) # 0
  BY <1>1, UsersFinite, FS_EmptySet
<1>3. releasing # {} => Cardinality(releasing) # 0
  BY <1>1, UsersFinite, FS_EmptySet
<1>4. Users > 0
  BY <1>1, <1>2, <1>3, UsersFinite DEF Users
<1> QED
  BY <1>1, <1>4 DEF TypeOK

LEMMA BodyInit == Init => BodyInv
<1> SUFFICES ASSUME Init PROVE BodyInv
  OBVIOUS
<1> USE RetryableRequestAssumption DEF Init
<1>1. TypeOK
  BY DEF TypeOK, Attempts
<1>2. Open = {}
  BY DEF Open
<1>3. Counted
  BY <1>2, FS_EmptySet DEF Counted, Users
<1>4. LastOpen /\ InPlace /\ BodyIntact
  BY <1>2 DEF LastOpen, InPlace, BodyIntact, Attempts
<1> QED
  BY <1>1, <1>3, <1>4 DEF BodyInv

-----------------------------------------------------------------------------
(* The types.                                                              *)

\* close takes the count no lower than zero while its caller is a user.
LEMMA ReleaseType ==
  ASSUME TypeOK, ref > 0, Release
  PROVE  ref' \in Nat /\ closes' \in Nat
BY DEF Release, TypeOK

LEMMA TypeStep == BodyInv /\ [Next]_vars => TypeOK'
<1> SUFFICES ASSUME BodyInv, [Next]_vars PROVE TypeOK'
  OBVIOUS
<1> USE RetryableRequestAssumption
<1>0. TypeOK
  BY DEF BodyInv
<1>1. ASSUME PrepareFirst \/ Seek PROVE TypeOK'
  BY <1>0, <1>1 DEF PrepareFirst, Seek, TypeOK
<1>2. CASE StopPrevious
  BY <1>0, <1>2 DEF StopPrevious, TypeOK
<1>3. ASSUME ReleasePrevious \/ Close PROVE TypeOK'
  <2>1. ref' \in Nat /\ closes' \in Nat
    BY <1>0, <1>3, UsersPositive, ReleaseType DEF ReleasePrevious, Close
  <2> QED
    BY <1>0, <1>3, <2>1 DEF ReleasePrevious, Close, TypeOK
<1>4. CASE Begin
  <2>1. attempt <= MaxDischargeRetries
    BY <1>4 DEF Begin, BodyInv, LastOpen
  <2>2. attempt' \in 0..(MaxDischargeRetries + 1) /\ ref' \in Nat /\ pc' = "do"
    BY <1>0, <1>4, <2>1 DEF Begin, TypeOK
  <2>3. /\ stopper' \in [Attempts -> {"none", "open", "closed"}]
        /\ conn' \in [Attempts -> {"none", "sending", "closed"}]
    BY <1>0, <1>4 DEF Begin, TypeOK
  <2>4. /\ releasing' \subseteq Attempts /\ pos' \in 1..(BodyLen + 1)
        /\ sent' \in [Attempts -> Seq(1..BodyLen)] /\ closes' \in Nat
    BY <1>0, <1>4 DEF Begin, TypeOK
  <2> QED
    BY <2>2, <2>3, <2>4 DEF TypeOK
<1>5. CASE Answer
  BY <1>0, <1>5 DEF Answer, TypeOK
<1>6. ASSUME NEW k \in Attempts, Read(k) PROVE TypeOK'
  <2>1. pos \in 1..BodyLen /\ sent[k] \in Seq(1..BodyLen)
    BY <1>0, <1>6 DEF Read, TypeOK
  <2>2. Append(sent[k], pos) \in Seq(1..BodyLen)
    BY <2>1
  <2> QED
    BY <1>0, <1>6, <2>1, <2>2 DEF Read, TypeOK
<1>7. ASSUME NEW k \in Attempts, TransportClose(k) PROVE TypeOK'
  BY <1>0, <1>7 DEF TransportClose, TypeOK
<1>8. ASSUME NEW k \in Attempts, TransportRelease(k) PROVE TypeOK'
  <2>1. ref' \in Nat /\ closes' \in Nat
    BY <1>0, <1>8, UsersPositive, ReleaseType DEF TransportRelease
  <2> QED
    BY <1>0, <1>8, <2>1 DEF TransportRelease, TypeOK
<1>9. CASE UNCHANGED vars
  BY <1>0, <1>9 DEF vars, TypeOK
<1> QED
  BY <1>1, <1>2, <1>3, <1>4, <1>5, <1>6, <1>7, <1>8, <1>9 DEF Next, Do, Transport

-----------------------------------------------------------------------------
(* The count of users.                                                     *)

\* One user less, and one call of close.
LEMMA ReleaseCounted ==
  ASSUME BodyInv, ref > 0, Release, Users' = Users - 1
  PROVE  Counted'
BY DEF BodyInv, Counted, Release, TypeOK

\* The same users, and no call.
LEMMA SameCounted ==
  ASSUME BodyInv, Users' = Users, UNCHANGED <<ref, closes>>
  PROVE  Counted'
BY DEF BodyInv, Counted

LEMMA CountedStep == BodyInv /\ [Next]_vars => Counted'
<1> SUFFICES ASSUME BodyInv, [Next]_vars PROVE Counted'
  OBVIOUS
<1>0. TypeOK
  BY DEF BodyInv
<1>a. /\ IsFiniteSet(Open) /\ Cardinality(Open) \in Nat
      /\ IsFiniteSet(releasing) /\ Cardinality(releasing) \in Nat
  BY <1>0, UsersFinite
<1>b. UNCHANGED stopper => Open' = Open
  BY DEF Open
\* An open reader that is stopped.
<1>c. ASSUME NEW k \in Attempts, stopper' = [stopper EXCEPT ![k] = "closed"]
      PROVE  /\ Open' = Open \ {k}
             /\ Cardinality(Open') = IF stopper[k] = "open" THEN Cardinality(Open) - 1
                                                            ELSE Cardinality(Open)
  <2>1. Open' = Open \ {k}
    BY <1>0, <1>c DEF Open, TypeOK
  <2> QED
    BY <1>a, <2>1, FS_RemoveElement DEF Open
<1>1. ASSUME PrepareFirst \/ Seek \/ Answer PROVE Counted'
  BY <1>1, <1>a, <1>b, SameCounted DEF PrepareFirst, Seek, Answer, Users
<1>2. CASE StopPrevious
  <2>1. attempt \in Attempts
    BY <1>0, <1>2 DEF StopPrevious, TypeOK, Attempts
  <2>2. Cardinality(Open') = IF stopper[attempt] = "open" THEN Cardinality(Open) - 1
                                                         ELSE Cardinality(Open)
    BY <1>2, <1>c, <2>1 DEF StopPrevious
  <2>3. Users' = Users
    BY <1>2, <1>a, <2>2 DEF StopPrevious, Users
  <2> QED
    BY <1>2, <2>3, SameCounted DEF StopPrevious
<1>3. ASSUME ReleasePrevious \/ Close PROVE Counted'
  <2>1. ref > 0
    BY <1>3, UsersPositive DEF ReleasePrevious, Close
  <2>2. Users' = Users - 1
    BY <1>3, <1>a, <1>b DEF ReleasePrevious, Close, Users
  <2> QED
    BY <1>3, <2>1, <2>2, ReleaseCounted DEF ReleasePrevious, Close
<1>4. CASE Begin
  <2>1. attempt + 1 \in Attempts /\ stopper[attempt + 1] = "none"
    BY <1>0, <1>4, RetryableRequestAssumption DEF Begin, BodyInv, LastOpen, TypeOK, Attempts
  <2>2. Open' = Open \cup {attempt + 1} /\ attempt + 1 \notin Open
    BY <1>0, <1>4, <2>1 DEF Begin, Open, TypeOK
  <2>3. Cardinality(Open') = Cardinality(Open) + 1
    BY <1>a, <2>2, FS_AddElement
  <2>4. Users' = Users + 1
    BY <1>4, <1>a, <2>3 DEF Begin, Users
  <2>5. ref > 0 /\ closes = 0
    BY <1>4, UsersPositive DEF Begin
  <2> QED
    BY <1>0, <1>4, <2>4, <2>5 DEF Begin, BodyInv, Counted, TypeOK
<1>5. ASSUME NEW k \in Attempts, Read(k) PROVE Counted'
  BY <1>5, <1>a, <1>b, SameCounted DEF Read, Users
<1>6. ASSUME NEW k \in Attempts, TransportClose(k) PROVE Counted'
  <2>1. CASE stopper[k] = "open"
    <3>1. k \notin releasing
      BY <2>1 DEF BodyInv, LastOpen
    <3>2. Cardinality(releasing') = Cardinality(releasing) + 1
      BY <1>6, <1>a, <2>1, <3>1, FS_AddElement DEF TransportClose
    <3>3. Cardinality(Open') = Cardinality(Open) - 1
      BY <1>6, <1>c, <2>1 DEF TransportClose
    <3>4. Users' = Users
      BY <1>6, <1>a, <3>2, <3>3 DEF TransportClose, Users
    <3> QED
      BY <1>6, <3>4, SameCounted DEF TransportClose
  <2>2. CASE stopper[k] # "open"
    BY <1>6, <1>a, <1>c, <2>2, SameCounted DEF TransportClose, Users
  <2> QED
    BY <2>1, <2>2
<1>7. ASSUME NEW k \in Attempts, TransportRelease(k) PROVE Counted'
  <2>1. ref > 0
    BY <1>7, UsersPositive DEF TransportRelease
  <2>2. Cardinality(releasing') = Cardinality(releasing) - 1
    BY <1>7, <1>a, FS_RemoveElement DEF TransportRelease
  <2>3. Users' = Users - 1
    BY <1>7, <1>a, <1>b, <2>2 DEF TransportRelease, Users
  <2> QED
    BY <1>7, <2>1, <2>3, ReleaseCounted DEF TransportRelease
<1>8. CASE UNCHANGED vars
  BY <1>8, <1>a, <1>b, SameCounted DEF vars, Users
<1> QED
  BY <1>1, <1>2, <1>3, <1>4, <1>5, <1>6, <1>7, <1>8 DEF Next, Do, Transport

-----------------------------------------------------------------------------
(* Who may read, and where the body stands.                                *)

LEMMA LastOpenStep == BodyInv /\ [Next]_vars => LastOpen'
<1> SUFFICES ASSUME BodyInv, [Next]_vars PROVE LastOpen'
  OBVIOUS
<1>0. TypeOK /\ LastOpen
  BY DEF BodyInv
<1> USE <1>0, RetryableRequestAssumption DEF LastOpen, Open
<1>1. ASSUME UNCHANGED <<attempt, stopper, conn>>,
             \/ PrepareFirst
             \/ Seek
             \/ ReleasePrevious
             \/ Close
      PROVE  LastOpen'
  <2>1. Open' = Open /\ releasing' = releasing
    BY <1>1 DEF PrepareFirst, Seek, ReleasePrevious, Close
  <2>2. \A k \in Open' : k = attempt' /\ pc' \in {"do", "prepare", "close", "returned"}
    BY <1>1, <2>1 DEF PrepareFirst, Seek, ReleasePrevious, Close, Attempts
  <2>3. attempt' = 0 => pc' \in {"prepare", "begin"}
    BY <1>1 DEF PrepareFirst, Seek, ReleasePrevious, Close
  <2>4. pc' \in {"prepare", "release", "seek", "begin"} => attempt' <= MaxDischargeRetries
    BY <1>1 DEF PrepareFirst, Seek, ReleasePrevious, Close
  <2> QED
    BY <1>1, <2>1, <2>2, <2>3, <2>4
<1>2. CASE StopPrevious
  BY <1>2 DEF StopPrevious, TypeOK
<1>3. CASE Begin
  BY <1>3 DEF Begin, TypeOK, Attempts
<1>4. CASE Answer
  BY <1>4 DEF Answer, TypeOK
<1>5. ASSUME NEW k \in Attempts, Read(k) PROVE LastOpen'
  BY <1>5 DEF Read
<1>6. ASSUME NEW k \in Attempts, TransportClose(k) PROVE LastOpen'
  BY <1>6 DEF TransportClose, TypeOK
<1>7. ASSUME NEW k \in Attempts, TransportRelease(k) PROVE LastOpen'
  BY <1>7 DEF TransportRelease
<1>8. CASE UNCHANGED vars
  BY <1>8 DEF vars
<1> QED
  BY <1>1, <1>2, <1>3, <1>4, <1>5, <1>6, <1>7, <1>8
     DEF Next, Do, Transport, PrepareFirst, Seek, ReleasePrevious, Close

\* An attempt that reads goes on from where it is, and nobody else moves.
LEMMA InPlaceStep == BodyInv /\ [Next]_vars => InPlace' /\ BodyIntact'
<1> SUFFICES ASSUME BodyInv, [Next]_vars PROVE InPlace' /\ BodyIntact'
  OBVIOUS
<1>0. TypeOK /\ LastOpen /\ InPlace /\ BodyIntact
  BY DEF BodyInv
<1>1. ASSUME NEW k \in Attempts, Read(k) PROVE InPlace' /\ BodyIntact'
  <2>1. k \in Open /\ Open' = Open
    BY <1>1 DEF Read, Open
  <2>2. k = attempt /\ pos = Len(sent[k]) + 1 /\ pc # "begin"
    BY <1>0, <2>1 DEF LastOpen, InPlace
  <2>3. \A j \in Open : j = k
    BY <1>0, <2>2 DEF LastOpen
  <2>4. sent[k] \in Seq(1..BodyLen) /\ pos \in 1..BodyLen
    BY <1>0, <1>1 DEF Read, TypeOK
  <2>5. /\ Len(Append(sent[k], pos)) = Len(sent[k]) + 1
        /\ \A i \in 1..Len(Append(sent[k], pos)) : Append(sent[k], pos)[i] = i
    BY <1>0, <2>2, <2>4 DEF BodyIntact
  <2>6. sent' = [sent EXCEPT ![k] = Append(sent[k], pos)] /\ pos' = pos + 1
    BY <1>1 DEF Read
  <2>7. sent'[k] = Append(sent[k], pos) /\ \A j \in Attempts : j # k => sent'[j] = sent[j]
    BY <1>0, <2>6 DEF TypeOK
  <2>8. BodyIntact'
    BY <1>0, <2>5, <2>7 DEF BodyIntact
  <2>9. \A j \in Open' : pos' = Len(sent'[j]) + 1
    BY <2>1, <2>2, <2>3, <2>4, <2>5, <2>6, <2>7
  <2>10. \A j \in Attempts : j > attempt' => sent'[j] = <<>>
    BY <1>0, <1>1, <2>2, <2>7 DEF InPlace, Read, TypeOK
  <2>11. pc' # "begin" /\ attempt' # 0
    BY <1>1, <2>2, RetryableRequestAssumption DEF Read, Attempts
  <2> QED
    BY <2>8, <2>9, <2>10, <2>11 DEF InPlace
<1>2. CASE Begin
  <2>1. UNCHANGED <<sent, pos>> /\ attempt' = attempt + 1 /\ pc' = "do" /\ pos = 1
    BY <1>0, <1>2 DEF Begin, InPlace
  <2>2. Open = {} /\ attempt + 1 \in Attempts /\ sent[attempt + 1] = <<>>
    BY <1>0, <1>2, RetryableRequestAssumption DEF Begin, LastOpen, InPlace, TypeOK, Attempts
  <2>3. \A k \in Open' : k = attempt + 1
    BY <1>0, <1>2, <2>2 DEF Begin, Open, TypeOK
  <2> QED
    BY <1>0, <2>1, <2>2, <2>3 DEF InPlace, BodyIntact, TypeOK, Attempts
<1>3. CASE PrepareFirst
  <2>1. pos = 1
    BY <1>0, <1>3 DEF PrepareFirst, InPlace
  <2> QED
    BY <1>0, <1>3, <2>1 DEF PrepareFirst, InPlace, BodyIntact, Open
<1>4. CASE Seek
  <2>1. Open = {}
    BY <1>0, <1>4 DEF Seek, LastOpen
  <2>2. stopper' = stopper
    BY <1>4 DEF Seek
  <2>3. /\ sent' = sent /\ attempt' = attempt
        /\ pos' = pos \/ pos' = 1
        /\ pc' = "begin" => pos' = 1
    BY <1>4 DEF Seek
  <2> QED
    BY <1>0, <2>1, <2>2, <2>3 DEF InPlace, BodyIntact, Open
<1>5. ASSUME StopPrevious \/ ReleasePrevious \/ Answer \/ Close PROVE InPlace' /\ BodyIntact'
  <2>1. \A j \in Attempts : stopper'[j] = "open" => stopper[j] = "open"
    BY <1>0, <1>5 DEF StopPrevious, ReleasePrevious, Answer, Close, Open, TypeOK
  <2>2. sent' = sent /\ attempt' = attempt /\ pos' = pos /\ pc' # "begin"
    BY <1>5 DEF StopPrevious, ReleasePrevious, Answer, Close
  <2> QED
    BY <1>0, <2>1, <2>2 DEF InPlace, BodyIntact, Open
<1>6. ASSUME NEW k \in Attempts, TransportClose(k) \/ TransportRelease(k)
      PROVE  InPlace' /\ BodyIntact'
  <2>1. \A j \in Attempts : stopper'[j] = "open" => stopper[j] = "open"
    BY <1>0, <1>6 DEF TransportClose, TransportRelease, Open, TypeOK
  <2>2. sent' = sent /\ attempt' = attempt /\ pos' = pos /\ pc' = pc
    BY <1>6 DEF TransportClose, TransportRelease
  <2>3. pc' = "begin" => pos' = 1
    BY <1>0, <2>2 DEF InPlace
  <2> QED
    BY <1>0, <2>1, <2>2, <2>3 DEF InPlace, BodyIntact, Open
<1>7. CASE UNCHANGED vars
  BY <1>0, <1>7 DEF vars, Open, InPlace, BodyIntact
<1> QED
  BY <1>1, <1>2, <1>3, <1>4, <1>5, <1>6, <1>7 DEF Next, Do, Transport

-----------------------------------------------------------------------------
\* The count of users is right and only the last attempt reads, in place.
THEOREM UsersCounted == Spec => []BodyInv
<1>1. BodyInv /\ [Next]_vars => BodyInv'
  BY TypeStep, CountedStep, LastOpenStep, InPlaceStep DEF BodyInv
<1> QED
  BY <1>1, BodyInit, PTL DEF Spec

\* Every variable of do1, prepare and the transports keeps its range.
THEOREM TypeCorrect == Spec => []TypeOK
<1>1. BodyInv => TypeOK
  BY DEF BodyInv
<1> QED
  BY <1>1, UsersCounted, PTL

\* Every attempt sends the body from its start without a gap.
THEOREM SentIntact == Spec => []BodyIntact
<1>1. BodyInv => BodyIntact
  BY DEF BodyInv
<1> QED
  BY <1>1, UsersCounted, PTL

\* The body is closed at most once, after its last use.
THEOREM ClosedLast == Spec => []ClosedAfterUse
<1>1. BodyInv => ClosedAfterUse
  <2> SUFFICES ASSUME BodyInv, closes > 0
               PROVE  closes = 1 /\ pc = "returned" /\ \A k \in Attempts : stopper[k] # "open"
    BY DEF ClosedAfterUse
  <2>1. closes = 1
    BY DEF BodyInv, Counted
  <2>2. pc = "returned" /\ Open = {}
    BY <2>1, UsersPositive
  <2> QED
    BY <2>1, <2>2 DEF Open
<1> QED
  BY <1>1, UsersCounted, PTL
=============================================================================

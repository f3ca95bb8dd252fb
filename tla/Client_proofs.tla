---------------------------- MODULE Client_proofs ----------------------------
(***************************************************************************)
(* Proofs about Client, for any number of goroutines, any operations and   *)
(* durations, and any number of retries from two on: who is entitled and   *)
(* undisturbed is served, and errors say what happened.                    *)
(***************************************************************************)
EXTENDS Client, TLAPS

Labels == {"idle", "send", "sent", "acquire", "interact", "token", "wait", "store"}
Events == {"failure", "refused", "interaction", "lost"}
Results == {"none", "served", "denied", "too many", "error", "discharge error", "interaction error"}

\* Of a Do nothing changes.
SameDo(t) ==
  /\ pc'[t] = pc[t] /\ op'[t] = op[t] /\ carried'[t] = carried[t] /\ retry'[t] = retry[t]
  /\ mac'[t] = mac[t] /\ events'[t] = events[t] /\ result'[t] = result[t]

LEMMA NumberTypes ==
  /\ MaxDischargeRetries \in Nat /\ 2 <= MaxDischargeRetries
  /\ MaxTime \in Nat
  /\ AuthnExpiry \in Nat /\ 0 < AuthnExpiry
  /\ AuthzExpiry \in Nat /\ 0 < AuthzExpiry
  /\ \A d \in DischargeExpiries : d \in Nat /\ 0 < d
BY ClientAssumption

LEMMA MethodsType == Len(InteractionMethods) \in Nat
<1>1. InteractionMethods \in Seq(Kinds)
  BY ClientAssumption
<1> QED
  BY <1>1

LEMMA FirstNumbers ==
  0 \in 0..MaxDischargeRetries /\ 1 \in 1..(Len(InteractionMethods) + 1)
BY NumberTypes, MethodsType

LEMMA NowType == TypeOK => now \in Nat
<1>1. TypeOK => now \in 0..MaxTime
  BY DEF TypeOK
<1> QED
  BY <1>1, NumberTypes

LEMMA RequestsType ==
  ASSUME NEW t \in Threads
  PROVE  Requests[t] \subseteq Ops /\ Requests[t] # {}
<1>1. Requests \in [Threads -> (SUBSET Ops) \ {{}}]
  BY ClientAssumption
<1> QED
  BY <1>1

LEMMA NoMacaroonType == NoMacaroon \in Macaroon /\ NoCookies \in [Names -> Macaroon]
BY DEF NoMacaroon, Macaroon, NoCookies

LEMMA NoOfferType == NoOffer \in Offer
BY DEF NoOffer, Offer

LEMMA ClientTypeInit == Init => TypeOK
<1> SUFFICES ASSUME Init PROVE TypeOK
  OBVIOUS
<1>1. ASSUME NEW t \in Threads PROVE (CHOOSE o \in Requests[t] : TRUE) \in Ops
  <2>1. Requests[t] \subseteq Ops /\ Requests[t] # {}
    BY RequestsType
  <2> QED
    BY <2>1
<1>2. op \in [Threads -> Ops]
  BY <1>1 DEF Init
<1>3. /\ jar \in [Names -> Macaroon]
      /\ carried \in [Threads -> [Names -> Macaroon]]
      /\ mac \in [Threads -> Macaroon]
      /\ offer \in [Threads -> Offer]
  BY NoMacaroonType, NoOfferType DEF Init
<1> QED
  BY <1>2, <1>3, NumberTypes, MethodsType DEF Init, TypeOK, Names

-----------------------------------------------------------------------------
(* A step of one Do that leaves the jar and the clock alone.               *)

LEMMA UndisturbedElsewhere ==
  ASSUME NEW t \in Threads, DoInv(t), SameDo(t), now' = now, jar' = jar
  PROVE  DoInv(t)'
BY DEF DoInv, SameDo, Progress, Ahead, Shows, Valid, EntitledRight, ErrorRight

LEMMA OwnStep ==
  ASSUME ClientInv, NEW t \in Threads, now' = now, jar' = jar, TypeOK', DoInv(t)',
         \A u \in Threads \ {t} : SameDo(u)
  PROVE  ClientInv'
<1>1. ASSUME NEW u \in Threads PROVE DoInv(u)'
  <2>1. CASE u # t
    BY <2>1, UndisturbedElsewhere DEF ClientInv
  <2> QED
    BY <2>1
<1> QED
  BY <1>1 DEF ClientInv

\* The end of a Do, with a result that its events explain.
LEMMA Ends ==
  ASSUME ClientInv, NEW t \in Threads, NEW r \in Results, Return(t, r), UNCHANGED <<now, jar, op>>,
         NEW es \in SUBSET Events, events' = [events EXCEPT ![t] = es],
         r # "served" /\ Class[op[t]] # "nobody" => es \ {"interaction"} # {},
         r = "discharge error" => "refused" \in es,
         r = "interaction error" => "interaction" \in es
  PROVE  ClientInv'
<1>0. TypeOK /\ DoInv(t)
  BY DEF ClientInv
<1> USE <1>0
<1>1. pc' \in [Threads -> Labels] /\ pc'[t] = "idle"
  BY DEF Return, Goto, TypeOK, Labels
<1>2. carried' \in [Threads -> [Names -> Macaroon]] /\ mac' \in [Threads -> Macaroon]
  BY NoMacaroonType DEF Return, TypeOK
<1>3. retry' \in [Threads -> 0..MaxDischargeRetries] /\ retry'[t] = 0
  BY FirstNumbers DEF Return, TypeOK
<1>4. name' \in [Threads -> Names]
  BY DEF Return, TypeOK, Names
<1>5. offer' \in [Threads -> Offer]
  BY NoOfferType DEF Return, TypeOK
<1>6. next' \in [Threads -> 1..(Len(InteractionMethods) + 1)]
  BY FirstNumbers DEF Return, TypeOK
<1>7. events' \in [Threads -> SUBSET Events] /\ events'[t] = es
  BY DEF TypeOK, Events
<1>8. result' \in [Threads -> Results] /\ result'[t] = r
  BY DEF Return, TypeOK, Results
<1>9. TypeOK'
  BY <1>1, <1>2, <1>3, <1>4, <1>5, <1>6, <1>7, <1>8 DEF TypeOK, Labels, Events, Results
<1>10. DoInv(t)'
  BY <1>1, <1>3, <1>7, <1>8 DEF DoInv, EntitledRight, ErrorRight
<1>11. \A u \in Threads \ {t} : SameDo(u)
  BY DEF SameDo, Return, Goto, TypeOK
<1> QED
  BY <1>9, <1>10, <1>11, OwnStep

\* ... after an event, or without one.
LEMMA EndsWith ==
  ASSUME ClientInv, NEW t \in Threads, NEW r \in Results, Return(t, r), UNCHANGED <<now, jar, op>>,
         NEW e \in Events \ {"interaction"}, Event(t, e),
         r = "discharge error" => e = "refused",
         r = "interaction error" => "interaction" \in events[t]
  PROVE  ClientInv'
<1>1. events[t] \cup {e} \in SUBSET Events
  BY DEF ClientInv, TypeOK, Events
<1>2. events' = [events EXCEPT ![t] = events[t] \cup {e}]
  BY DEF Event
<1>3. r = "discharge error" => "refused" \in events[t] \cup {e}
  OBVIOUS
<1>4. (events[t] \cup {e}) \ {"interaction"} # {}
  OBVIOUS
<1> QED
  BY <1>1, <1>2, <1>3, <1>4, Ends

LEMMA EndsQuietly ==
  ASSUME ClientInv, NEW t \in Threads, NEW r \in Results, Return(t, r),
         UNCHANGED <<now, jar, op, events>>, r \notin {"discharge error", "interaction error"},
         r # "served" /\ Class[op[t]] # "nobody" => events[t] \ {"interaction"} # {}
  PROVE  ClientInv'
<1>1. events[t] \in SUBSET Events /\ events' = [events EXCEPT ![t] = events[t]]
  BY DEF ClientInv, TypeOK, Events
<1> QED
  BY <1>1, Ends

-----------------------------------------------------------------------------
(* The service's answers.                                                  *)

\* An undisturbed Do whose macaroons do not suffice has had one discharge
\* required at most, and if it had, it shows its identity.
LEMMA NotAhead ==
  ASSUME ClientInv, NEW t \in Threads, pc[t] = "sent", ~Authorized(t), events[t] \subseteq {"interaction"}
  PROVE  retry[t] = 0 \/ (retry[t] = 1 /\ HasIdentity(t))
<1>1. Ahead(t, carried[t])
  BY DEF ClientInv, DoInv, Progress
<1>2. ~Shows(carried[t], op[t])
  BY DEF Authorized
<1> QED
  BY <1>1, <1>2 DEF Ahead, HasIdentity, Shows

LEMMA ServeKeeps ==
  ASSUME ClientInv, NEW t \in Threads, Serve(t)
  PROVE  ClientInv'
BY EndsQuietly DEF Serve, Results

LEMMA DenyKeeps ==
  ASSUME ClientInv, NEW t \in Threads, Deny(t)
  PROVE  ClientInv'
<1>1. op[t] \in Ops /\ Class[op[t]] \in Classes
  BY ClientAssumption DEF ClientInv, TypeOK
<1>2. Class[op[t]] = "nobody"
  BY <1>1 DEF Deny, Authorized, Classes
<1> QED
  BY <1>2, EndsQuietly DEF Deny, Results

LEMMA TooManyKeeps ==
  ASSUME ClientInv, NEW t \in Threads, TooMany(t)
  PROVE  ClientInv'
<1>1. pc[t] = "sent" /\ ~Authorized(t) /\ ~(retry[t] + 1 <= MaxDischargeRetries)
  BY DEF TooMany, DischargeRequired
<1>2. ASSUME events[t] \subseteq {"interaction"} PROVE FALSE
  <2>1. retry[t] = 0 \/ retry[t] = 1
    BY <1>1, <1>2, NotAhead
  <2> QED
    BY <1>1, <2>1, ClientAssumption
<1>3. events[t] \ {"interaction"} # {}
  BY <1>2
<1> QED
  BY <1>3, EndsQuietly DEF TooMany, Results

LEMMA DoErrorKeeps ==
  ASSUME ClientInv, NEW t \in Threads, DoError(t)
  PROVE  ClientInv'
BY EndsWith DEF DoError, Results, Events

LEMMA FailuresKeep ==
  ASSUME ClientInv, NEW t \in Threads,
         \/ Refused(t) \/ AcquireFails(t) \/ CannotInteract(t) \/ InteractFails(t)
         \/ AcquireWithTokenFails(t) \/ LegacyUnsupported(t) \/ LegacyVisitFails(t) \/ WaitFails(t)
  PROVE  ClientInv'
<1>1. pc[t] = "interact" => "interaction" \in events[t]
  BY DEF ClientInv, DoInv
<1>2. UNCHANGED <<now, jar, op>>
  BY DEF Refused, AcquireFails, CannotInteract, InteractFails, AcquireWithTokenFails,
         LegacyUnsupported, LegacyVisitFails, WaitFails
<1>3. \/ Return(t, "error") /\ \E e \in {"failure", "refused"} : Event(t, e)
      \/ Return(t, "discharge error") /\ Event(t, "refused")
      \/ Return(t, "interaction error") /\ Event(t, "failure") /\ pc[t] = "interact"
  BY DEF Refused, AcquireFails, CannotInteract, InteractFails, AcquireWithTokenFails,
         LegacyUnsupported, LegacyVisitFails, WaitFails, Trying, LegacyInteracting
<1>4. {"failure", "refused"} \subseteq Events \ {"interaction"}
      /\ {"error", "discharge error", "interaction error"} \subseteq Results
  BY DEF Events, Results
<1>5. CASE Return(t, "error") /\ \E e \in {"failure", "refused"} : Event(t, e)
  BY <1>2, <1>4, <1>5, EndsWith
<1>6. CASE Return(t, "discharge error") /\ Event(t, "refused")
  BY <1>2, <1>4, <1>6, EndsWith
<1>7. CASE Return(t, "interaction error") /\ Event(t, "failure") /\ pc[t] = "interact"
  BY <1>1, <1>2, <1>4, <1>7, EndsWith
<1> QED
  BY <1>3, <1>5, <1>6, <1>7

-----------------------------------------------------------------------------
(* The steps of a Do that goes on.                                         *)

LEMMA DoKeeps ==
  ASSUME ClientInv, NEW t \in Threads, NEW o \in Requests[t], Do(t, o)
  PROVE  ClientInv'
<1>0. TypeOK /\ DoInv(t) /\ o \in Ops
  BY ClientAssumption DEF ClientInv
<1> USE <1>0
<1>1. /\ pc' \in [Threads -> Labels] /\ pc'[t] = "send"
      /\ op' \in [Threads -> Ops]
      /\ events' \in [Threads -> SUBSET Events]
      /\ result' \in [Threads -> Results] /\ result'[t] = "none"
  BY DEF Do, Goto, TypeOK, Labels, Results, Events
<1>2. UNCHANGED <<now, jar, carried, retry, name, mac, offer, next>>
  BY DEF Do
<1>3. TypeOK'
  BY <1>1, <1>2 DEF TypeOK, Labels, Events, Results
<1>4. retry'[t] = 0
  BY <1>2 DEF Do, DoInv
<1>5. DoInv(t)'
  BY <1>1, <1>4 DEF DoInv, Progress, Ahead, EntitledRight, ErrorRight, Acquiring
<1>6. \A u \in Threads \ {t} : SameDo(u)
  BY DEF SameDo, Do, Goto, TypeOK
<1> QED
  BY <1>2, <1>3, <1>5, <1>6, OwnStep

LEMMA SendKeeps ==
  ASSUME ClientInv, NEW t \in Threads, Send(t)
  PROVE  ClientInv'
<1>0. TypeOK /\ DoInv(t) /\ pc[t] = "send"
  BY DEF ClientInv, Send
<1> USE <1>0
<1>1. /\ pc' \in [Threads -> Labels] /\ pc'[t] = "sent"
      /\ carried' \in [Threads -> [Names -> Macaroon]] /\ carried'[t] = jar
  BY DEF Send, Goto, TypeOK, Labels
<1>2. UNCHANGED <<now, jar, op, retry, name, mac, offer, next, events, result>>
  BY DEF Send
<1>3. TypeOK'
  BY <1>1, <1>2 DEF TypeOK, Labels
<1>4. events[t] \subseteq {"interaction"} => Ahead(t, carried[t])'
  BY <1>1, <1>2 DEF DoInv, Progress, Ahead, Shows, Valid
<1>5. DoInv(t)'
  BY <1>1, <1>2, <1>4 DEF DoInv, Progress, EntitledRight, ErrorRight, Acquiring
<1>6. \A u \in Threads \ {t} : SameDo(u)
  BY DEF SameDo, Send, Goto, TypeOK
<1> QED
  BY <1>2, <1>3, <1>5, <1>6, OwnStep

\* What Oven.Error makes is valid for now.
LEMMA OvenErrorType ==
  ASSUME TypeOK, NEW t \in Threads, NEW forAuthentication \in BOOLEAN, OvenError(t, forAuthentication)
  PROVE  /\ name' \in [Threads -> Names]
         /\ mac' \in [Threads -> Macaroon]
         /\ now < mac'[t].until
         /\ mac'[t].ops = IF forAuthentication THEN {Login} ELSE {op[t]}
<1>1. now \in Nat /\ op[t] \in Ops
  BY NowType DEF TypeOK
<1>2. name' \in [Threads -> Names]
  BY DEF OvenError, TypeOK, Names
<1>3. CASE forAuthentication
  <2>1. mac' = [mac EXCEPT ![t] = [ops |-> {Login}, until |-> now + AuthnExpiry]]
    BY <1>3 DEF OvenError
  <2>2. [ops |-> {Login}, until |-> now + AuthnExpiry] \in Macaroon
    BY <1>1, NumberTypes DEF Macaroon
  <2>3. mac' \in [Threads -> Macaroon] /\ mac'[t] = [ops |-> {Login}, until |-> now + AuthnExpiry]
    BY <2>1, <2>2 DEF TypeOK
  <2> QED
    BY <1>1, <1>2, <1>3, <2>3, NumberTypes
<1>4. CASE ~forAuthentication
  <2>1. mac' = [mac EXCEPT ![t] = [ops |-> {op[t]}, until |-> now + AuthzExpiry]]
    BY <1>4 DEF OvenError
  <2>2. [ops |-> {op[t]}, until |-> now + AuthzExpiry] \in Macaroon
    BY <1>1, NumberTypes DEF Macaroon
  <2>3. mac' \in [Threads -> Macaroon] /\ mac'[t] = [ops |-> {op[t]}, until |-> now + AuthzExpiry]
    BY <2>1, <2>2 DEF TypeOK
  <2> QED
    BY <1>1, <1>2, <1>4, <2>3, NumberTypes
<1> QED
  BY <1>3, <1>4

LEMMA RequireDischargeKeeps ==
  ASSUME ClientInv, NEW t \in Threads, RequireDischarge(t)
  PROVE  ClientInv'
<1>0. TypeOK /\ DoInv(t) /\ pc[t] = "sent" /\ ~Authorized(t)
  BY DEF ClientInv, RequireDischarge, DischargeRequired
<1> USE <1>0
<1>1. /\ pc' \in [Threads -> Labels] /\ pc'[t] = "acquire"
      /\ carried' \in [Threads -> [Names -> Macaroon]]
  BY NoMacaroonType DEF RequireDischarge, Goto, TypeOK, Labels
<1>2. UNCHANGED <<now, jar, op, offer, next, events, result>>
  BY DEF RequireDischarge
<1>3. /\ retry' \in [Threads -> 0..MaxDischargeRetries]
      /\ retry'[t] = retry[t] + 1
  <2>1. retry' = [retry EXCEPT ![t] = retry[t] + 1] /\ retry[t] + 1 <= MaxDischargeRetries
    BY DEF RequireDischarge, AnotherRetry
  <2>2. retry \in [Threads -> 0..MaxDischargeRetries] /\ MaxDischargeRetries \in Nat
    BY ClientAssumption DEF TypeOK
  <2>3. retry[t] + 1 \in 0..MaxDischargeRetries
    BY <2>1, <2>2
  <2> QED
    BY <2>1, <2>2, <2>3
<1>4. /\ name' \in [Threads -> Names]
      /\ mac' \in [Threads -> Macaroon]
      /\ now < mac'[t].until
      /\ mac'[t].ops = IF ~HasIdentity(t) THEN {Login} ELSE {op[t]}
  BY OvenErrorType DEF RequireDischarge
<1>5. TypeOK'
  BY <1>1, <1>2, <1>3, <1>4 DEF TypeOK, Labels
<1>6. events[t] \subseteq {"interaction"} => Progress(t)'
  <2>1. ASSUME events[t] \subseteq {"interaction"}
        PROVE  retry[t] = 0 \/ (retry[t] = 1 /\ HasIdentity(t))
    BY <2>1, NotAhead
  <2> QED
    BY <1>1, <1>2, <1>3, <1>4, <2>1 DEF Progress, Valid
<1>7. DoInv(t)'
  BY <1>1, <1>2, <1>6 DEF DoInv, EntitledRight, ErrorRight
<1>8. \A u \in Threads \ {t} : SameDo(u)
  BY DEF SameDo, RequireDischarge, AnotherRetry, OvenError, Goto, TypeOK
<1> QED
  BY <1>2, <1>5, <1>7, <1>8, OwnStep

\* A discharge may shorten a macaroon's life, but not end it.
LEMMA DischargedType ==
  ASSUME TypeOK, NEW t \in Threads, Discharged(t)
  PROVE  /\ mac' \in [Threads -> Macaroon]
         /\ mac'[t].ops = mac[t].ops
         /\ Valid(mac[t]) => now < mac'[t].until
         /\ \A u \in Threads \ {t} : mac'[u] = mac[u]
<1>1. PICK d \in DischargeExpiries :
        mac' = [mac EXCEPT ![t].until = IF now + d < mac[t].until THEN now + d ELSE mac[t].until]
  BY DEF Discharged
<1>2. d \in Nat /\ 0 < d /\ now \in Nat /\ mac[t] \in Macaroon
  BY NumberTypes, NowType DEF TypeOK
<1> DEFINE end == IF now + d < mac[t].until THEN now + d ELSE mac[t].until
           limited == [mac[t] EXCEPT !.until = end]
<1>3. end \in Nat /\ (now < mac[t].until => now < end)
  BY <1>2 DEF Macaroon
<1>4. limited \in Macaroon /\ limited.ops = mac[t].ops /\ limited.until = end
  BY <1>2, <1>3 DEF Macaroon
<1>5. mac' = [mac EXCEPT ![t] = limited]
  BY <1>1
<1> HIDE DEF limited, end
<1>6. /\ mac' \in [Threads -> Macaroon] /\ mac'[t] = limited
      /\ \A u \in Threads \ {t} : mac'[u] = mac[u]
  BY <1>4, <1>5 DEF TypeOK
<1> QED
  BY <1>3, <1>4, <1>6 DEF Valid

\* A step of AcquireDischarge or interact that does not fail: the macaroon is
\* the same, or discharged.
LEMMA AcquiringKeeps ==
  ASSUME ClientInv, NEW t \in Threads, pc[t] \in Acquiring, NEW label \in Acquiring, Goto(t, label),
         UNCHANGED <<now, jar, op, carried, retry, name, result>>,
         UNCHANGED mac \/ Discharged(t),
         events' = events \/ (\E e \in {"failure", "interaction"} : Event(t, e)),
         label = "interact" => "interaction" \in events'[t],
         offer' \in [Threads -> Offer],
         next' \in [Threads -> 1..(Len(InteractionMethods) + 1)]
  PROVE  ClientInv'
<1>0. TypeOK /\ DoInv(t)
  BY DEF ClientInv
<1> USE <1>0
<1>1. pc' \in [Threads -> Labels] /\ pc'[t] = label /\ \A u \in Threads \ {t} : pc'[u] = pc[u]
  BY DEF Goto, TypeOK, Labels, Acquiring
<1>2. /\ mac' \in [Threads -> Macaroon]
      /\ mac'[t].ops = mac[t].ops
      /\ Valid(mac[t]) => now < mac'[t].until
      /\ \A u \in Threads \ {t} : mac'[u] = mac[u]
  <2>1. CASE UNCHANGED mac
    BY <2>1 DEF TypeOK, Valid
  <2>2. CASE Discharged(t)
    BY <2>2, DischargedType
  <2> QED
    BY <2>1, <2>2
<1>3. /\ events' \in [Threads -> SUBSET Events] /\ events[t] \subseteq events'[t]
      /\ \A u \in Threads \ {t} : events'[u] = events[u]
  <2>1. \E es \in SUBSET Events : events[t] \subseteq es /\ events' = [events EXCEPT ![t] = es]
    <3>1. events[t] \in SUBSET Events /\ events = [events EXCEPT ![t] = events[t]]
      BY DEF TypeOK, Events
    <3>2. \A e \in {"failure", "interaction"} : events[t] \cup {e} \in SUBSET Events
      BY <3>1 DEF Events
    <3> QED
      BY <3>1, <3>2 DEF Event
  <2>2. PICK es \in SUBSET Events : events[t] \subseteq es /\ events' = [events EXCEPT ![t] = es]
    BY <2>1
  <2>3. events \in [Threads -> SUBSET Events]
    BY DEF TypeOK, Events
  <2> QED
    BY <2>2, <2>3
<1>4. TypeOK'
  BY <1>1, <1>2, <1>3 DEF TypeOK, Labels, Events
<1>5. pc[t] # "idle" /\ label \notin {"idle", "send", "sent"}
  BY DEF Acquiring
<1>6. ASSUME events'[t] \subseteq {"interaction"} PROVE Progress(t)'
  <2>1. Progress(t)
    BY <1>3, <1>5, <1>6 DEF DoInv
  <2> QED
    BY <1>1, <1>2, <1>5, <2>1 DEF Progress, Valid
<1>7. DoInv(t)'
  BY <1>1, <1>5, <1>6 DEF DoInv, EntitledRight, ErrorRight
<1>8. \A u \in Threads \ {t} : SameDo(u)
  BY <1>1, <1>2, <1>3 DEF SameDo
<1> QED
  BY <1>4, <1>7, <1>8, OwnStep

LEMMA AcquireKeeps ==
  ASSUME ClientInv, NEW t \in Threads,
         \/ Acquire(t) \/ GotToken(t) \/ AcquireWithToken(t) \/ LegacyVisit(t) \/ WaitForMacaroon(t)
  PROVE  ClientInv'
<1>1. /\ pc[t] \in Acquiring
      /\ \E label \in Acquiring \ {"interact"} : Goto(t, label)
      /\ UNCHANGED <<now, jar, op, carried, retry, name, offer, next, events, result>>
      /\ UNCHANGED mac \/ Discharged(t)
  BY DEF Acquire, GotToken, AcquireWithToken, LegacyVisit, WaitForMacaroon, Trying,
         LegacyInteracting, Acquiring
<1>2. offer' \in [Threads -> Offer] /\ next' \in [Threads -> 1..(Len(InteractionMethods) + 1)]
  BY <1>1 DEF ClientInv, TypeOK
<1> QED
  BY <1>1, <1>2, AcquiringKeeps

LEMMA InteractionRequiredKeeps ==
  ASSUME ClientInv, NEW t \in Threads, InteractionRequired(t)
  PROVE  ClientInv'
<1>0. TypeOK
  BY DEF ClientInv
<1>1. /\ pc[t] \in Acquiring /\ "interact" \in Acquiring /\ Goto(t, "interact")
      /\ UNCHANGED <<now, jar, op, carried, retry, name, mac, result>>
      /\ Event(t, "interaction")
  BY DEF InteractionRequired, Acquiring
<1>2. "interaction" \in events'[t]
  BY <1>0, <1>1 DEF Event, TypeOK
<1>3. offer' \in [Threads -> Offer]
  BY <1>0, ClientAssumption DEF InteractionRequired, TypeOK, Offer
<1>4. next' \in [Threads -> 1..(Len(InteractionMethods) + 1)]
  BY <1>0, FirstNumbers DEF InteractionRequired, TypeOK
<1> QED
  BY <1>1, <1>2, <1>3, <1>4, AcquiringKeeps

LEMMA NextMethodKeeps ==
  ASSUME ClientInv, NEW t \in Threads, NextMethod(t)
  PROVE  ClientInv'
<1>0. TypeOK /\ DoInv(t) /\ pc[t] = "interact" /\ next[t] <= Len(InteractionMethods)
  BY DEF ClientInv, NextMethod, Trying
<1>1. /\ UNCHANGED <<now, jar, pc, op, carried, retry, name, mac, offer, result>>
      /\ events' = events \/ Event(t, "failure")
  BY DEF NextMethod
<1>2. Goto(t, "interact")
  BY <1>0, <1>1 DEF Goto, TypeOK
<1>3. "interaction" \in events'[t]
  <2>1. "interaction" \in events[t]
    BY <1>0 DEF DoInv
  <2>2. events[t] \subseteq events'[t]
    BY <1>0, <1>1 DEF Event, TypeOK
  <2> QED
    BY <2>1, <2>2
<1>4. next' \in [Threads -> 1..(Len(InteractionMethods) + 1)]
  <2>1. Len(InteractionMethods) \in Nat /\ next[t] \in 1..(Len(InteractionMethods) + 1)
    BY <1>0, MethodsType DEF TypeOK
  <2>2. next[t] + 1 \in 1..(Len(InteractionMethods) + 1)
    BY <1>0, <2>1
  <2> QED
    BY <1>0, <2>2 DEF NextMethod, TypeOK
<1>5. offer' \in [Threads -> Offer]
  BY <1>0, <1>1 DEF TypeOK
<1>6. pc[t] \in Acquiring /\ "interact" \in Acquiring
  BY <1>0 DEF Acquiring
<1> QED
  BY <1>1, <1>2, <1>3, <1>4, <1>5, <1>6, AcquiringKeeps

-----------------------------------------------------------------------------
(* The steps that disturb other Do's.                                      *)

\* A Do has the cookies it had, but for those it loses.
LEMMA JarChanges ==
  ASSUME ClientInv, NEW u \in Threads, NEW n \in Names, NEW m \in Macaroon,
         jar' = [jar EXCEPT ![n] = m], now' = now, pc[u] # "idle", ~Loses(u, n, m),
         retry'[u] = retry[u], op'[u] = op[u], Ahead(u, jar)
  PROVE  Ahead(u, jar)'
<1>0. TypeOK
  BY DEF ClientInv
<1>1. ASSUME NEW o \in {op[u], Login}, Shows(jar, o) PROVE Shows(jar, o)'
  <2>1. PICK k \in Names : Valid(jar[k]) /\ o \in jar[k].ops
    BY <1>1 DEF Shows
  <2>2. CASE k # n
    <3>1. jar'[k] = jar[k]
      BY <1>0, <2>2 DEF TypeOK
    <3> QED
      BY <2>1, <3>1 DEF Shows, Valid
  <2>3. CASE k = n
    <3>1. Useful(u, jar[n])
      BY <2>1, <2>3 DEF Useful
    <3>2. m.ops = jar[n].ops /\ Valid(m)
      BY <3>1 DEF Loses
    <3>3. jar'[n] = m
      BY <1>0 DEF TypeOK
    <3> QED
      BY <2>1, <2>3, <3>2, <3>3 DEF Shows, Valid
  <2> QED
    BY <2>2, <2>3
<1> QED
  BY <1>1 DEF Ahead

\* What a Do has acquired is in the jar, and the other Do's still have what
\* they need, or have lost it.
LEMMA StoreKeeps ==
  ASSUME ClientInv, NEW t \in Threads, Store(t)
  PROVE  ClientInv'
<1>0. TypeOK /\ DoInv(t) /\ pc[t] = "store" /\ now' = now
  BY DEF ClientInv, Store
<1> USE <1>0
<1>1. /\ name[t] \in Names /\ mac[t] \in Macaroon
      /\ jar' = [jar EXCEPT ![name[t]] = mac[t]]
      /\ jar' \in [Names -> Macaroon] /\ jar'[name[t]] = mac[t]
  BY DEF Store, TypeOK
<1>2. pc' \in [Threads -> Labels] /\ pc'[t] = "send" /\ \A u \in Threads \ {t} : pc'[u] = pc[u]
  BY DEF Store, Goto, TypeOK, Labels
<1>3. mac' \in [Threads -> Macaroon] /\ \A u \in Threads \ {t} : mac'[u] = mac[u]
  BY NoMacaroonType DEF Store, TypeOK
<1>4. /\ name' \in [Threads -> Names]
      /\ offer' \in [Threads -> Offer]
      /\ next' \in [Threads -> 1..(Len(InteractionMethods) + 1)]
  BY NoOfferType, FirstNumbers DEF Store, TypeOK, Names
<1>5. /\ events' \in [Threads -> SUBSET Events]
      /\ events'[t] = events[t]
      /\ \A u \in Threads : events[u] \subseteq events'[u]
      /\ \A u \in Threads \ {t} : Loses(u, name[t], mac[t]) => "lost" \in events'[u]
  BY DEF Store, TypeOK, Events
<1>6. UNCHANGED <<now, op, carried, retry, result>>
  BY DEF Store
<1>7. TypeOK'
  BY <1>1, <1>2, <1>3, <1>4, <1>5, <1>6 DEF TypeOK, Labels, Events
<1>8. DoInv(t)'
  <2>1. ASSUME events[t] \subseteq {"interaction"} PROVE Progress(t)'
    <3>1. /\ Valid(mac[t])
          /\ \/ retry[t] = 1 /\ mac[t].ops = {Login}
             \/ retry[t] \in {1, 2} /\ mac[t].ops = {op[t]}
      BY <2>1 DEF DoInv, Progress, Acquiring
    <3>2. \/ retry[t] = 1 /\ Shows(jar, Login)'
          \/ retry[t] \in {1, 2} /\ Shows(jar, op[t])'
      BY <1>1, <1>6, <3>1 DEF Shows, Valid
    <3>3. Ahead(t, jar)'
      BY <1>6, <3>2 DEF Ahead
    <3> QED
      BY <1>2, <3>3 DEF Progress, Acquiring
  <2> QED
    BY <1>2, <1>5, <1>6, <2>1 DEF DoInv, EntitledRight, ErrorRight
<1>9. ASSUME NEW u \in Threads \ {t} PROVE DoInv(u)'
  <2>0. DoInv(u)
    BY DEF ClientInv
  <2>1. /\ pc'[u] = pc[u] /\ op'[u] = op[u] /\ carried'[u] = carried[u] /\ retry'[u] = retry[u]
        /\ mac'[u] = mac[u] /\ result'[u] = result[u] /\ events[u] \subseteq events'[u]
    BY <1>2, <1>3, <1>5, <1>6
  <2>2. ASSUME pc[u] # "idle", events'[u] \subseteq {"interaction"} PROVE Progress(u)'
    <3>1. Progress(u) /\ ~Loses(u, name[t], mac[t])
      BY <1>5, <2>0, <2>1, <2>2 DEF DoInv
    <3>2. pc[u] = "send" => Ahead(u, jar)'
      BY <1>1, <2>1, <2>2, <3>1, JarChanges DEF Progress
    <3> QED
      BY <2>1, <3>1, <3>2 DEF Progress, Ahead, Shows, Valid
  <2>3. EntitledRight(u)' /\ ErrorRight(u)'
    BY <2>0, <2>1 DEF DoInv, EntitledRight, ErrorRight
  <2> QED
    BY <2>0, <2>1, <2>2, <2>3 DEF DoInv
<1> QED
  BY <1>7, <1>8, <1>9 DEF ClientInv

\* A macaroon that a Do needs is valid after a tick, or lost.
LEMMA TickKeeps ==
  ASSUME ClientInv, Tick
  PROVE  ClientInv'
<1>0. TypeOK
  BY DEF ClientInv
<1>1. /\ now' = now + 1 /\ now' \in 0..MaxTime /\ now \in Nat
      /\ UNCHANGED <<jar, pc, op, carried, retry, name, mac, offer, next, result>>
  <2>1. now \in Nat /\ MaxTime \in Nat /\ now < MaxTime /\ now' = now + 1
    BY <1>0, NowType, NumberTypes DEF Tick
  <2> QED
    BY <2>1 DEF Tick
<1>2. /\ events' \in [Threads -> SUBSET Events]
      /\ \A t \in Threads : /\ events[t] \subseteq events'[t]
                            /\ pc[t] # "idle" /\ Expiring(t, now + 1) => "lost" \in events'[t]
  BY <1>0 DEF Tick, TypeOK, Events
<1>3. TypeOK'
  BY <1>0, <1>1, <1>2 DEF TypeOK, Events
<1>4. ASSUME NEW t \in Threads PROVE DoInv(t)'
  <2>0. DoInv(t)
    BY DEF ClientInv
  <2>1. ASSUME pc[t] # "idle", events'[t] \subseteq {"interaction"} PROVE Progress(t)'
    <3>1. Progress(t) /\ ~Expiring(t, now + 1)
      BY <1>2, <2>0, <2>1 DEF DoInv
    <3>2. ASSUME NEW m \in Macaroon, NEW o \in {op[t], Login}, Valid(m), o \in m.ops,
                 m \in {mac[t]} \cup {carried[t][n] : n \in Names} \cup {jar[n] : n \in Names}
          PROVE  now + 1 < m.until
      <4>1. ~(m.until <= now + 1)
        BY <3>1, <3>2 DEF Expiring, Useful
      <4>2. m.until \in Nat
        BY DEF Macaroon
      <4> QED
        BY <1>1, <4>1, <4>2
    <3>3. ASSUME NEW o \in {op[t], Login}, Shows(jar, o) PROVE Shows(jar, o)'
      BY <1>0, <1>1, <3>2, <3>3 DEF Shows, Valid, TypeOK
    <3>4. ASSUME NEW o \in {op[t], Login}, Shows(carried[t], o) PROVE Shows(carried[t], o)'
      BY <1>0, <1>1, <3>2, <3>4 DEF Shows, Valid, TypeOK
    <3>5. ASSUME pc[t] \in Acquiring
          PROVE  Valid(mac[t])'
      <4>1. Valid(mac[t]) /\ (Login \in mac[t].ops \/ op[t] \in mac[t].ops)
        BY <3>1, <3>5 DEF Progress
      <4> QED
        BY <1>0, <1>1, <3>2, <4>1 DEF Valid, TypeOK
    <3> QED
      BY <1>1, <3>1, <3>3, <3>4, <3>5 DEF Progress, Ahead
  <2>2. EntitledRight(t)' /\ ErrorRight(t)'
    BY <1>1, <1>2, <2>0 DEF DoInv, EntitledRight, ErrorRight
  <2> QED
    BY <1>1, <1>2, <2>0, <2>1, <2>2 DEF DoInv
<1> QED
  BY <1>3, <1>4 DEF ClientInv

-----------------------------------------------------------------------------
(* All together.                                                           *)

LEMMA ClientInit == Init => ClientInv
<1> SUFFICES ASSUME Init PROVE ClientInv
  OBVIOUS
<1>1. ASSUME NEW t \in Threads PROVE DoInv(t)
  <2>1. pc[t] = "idle" /\ retry[t] = 0 /\ result[t] = "none"
    BY DEF Init
  <2> QED
    BY <2>1 DEF DoInv, EntitledRight, ErrorRight
<1> QED
  BY <1>1, ClientTypeInit DEF ClientInv

LEMMA ClientStep == ClientInv /\ [Next]_vars => ClientInv'
<1> SUFFICES ASSUME ClientInv, [Next]_vars PROVE ClientInv'
  OBVIOUS
<1>1. ASSUME NEW t \in Threads, Step(t) PROVE ClientInv'
  BY <1>1, SendKeeps, ServeKeeps, DenyKeeps, RequireDischargeKeeps, TooManyKeeps, DoErrorKeeps,
     AcquireKeeps, FailuresKeep, InteractionRequiredKeeps, NextMethodKeeps, StoreKeeps DEF Step
<1>2. ASSUME NEW t \in Threads, NEW o \in Requests[t], Do(t, o) PROVE ClientInv'
  BY <1>2, DoKeeps
<1>3. CASE UNCHANGED vars
  <2>1. TypeOK'
    BY <1>3 DEF ClientInv, TypeOK, vars
  <2>2. ASSUME NEW t \in Threads PROVE DoInv(t)'
    BY <1>3, UndisturbedElsewhere DEF ClientInv, vars, SameDo
  <2> QED
    BY <2>1, <2>2 DEF ClientInv
<1> QED
  BY <1>1, <1>2, <1>3, TickKeeps DEF Next

\* Of the answers that do1 counts, an undisturbed Do meets at most two.
THEOREM DoProgresses == Spec => []ClientInv
<1> QED
  BY ClientInit, ClientStep, PTL DEF Spec

\* The variables of the Do's keep their types; retry stays within its limit.
THEOREM TypeCorrect == Spec => []TypeOK
<1>1. ClientInv => TypeOK
  BY DEF ClientInv
<1> QED
  BY <1>1, DoProgresses, PTL

\* Who may perform an operation is served, unless a failure, a refusal, an
\* expiry or another Do's cookie comes in between (client.go, do1).
THEOREM EntitledAreServed == Spec => []EntitledServed
<1>1. ClientInv => EntitledServed
  BY DEF ClientInv, DoInv, EntitledServed
<1> QED
  BY <1>1, DoProgresses, PTL

\* The types of errors say what happened (client.go, AcquireDischarge and
\* interact).
THEOREM ErrorsAreJustified == Spec => []ErrorsJustified
<1>1. ClientInv => ErrorsJustified
  BY DEF ClientInv, DoInv, ErrorsJustified
<1> QED
  BY <1>1, DoProgresses, PTL
=============================================================================

------------------------------- MODULE Client -------------------------------
(***************************************************************************)
(* httpbakery.Client (client.go): goroutines that share a Client and its   *)
(* cookie jar make requests to a service whose handlers call               *)
(* identchecker's Allow and httpbakery.Oven.Error (oven.go), and acquire   *)
(* discharges from a third party (discharge.go), by interaction if need be.*)
(*                                                                         *)
(* A macaroon is the operations in its id and the time at which it, or a   *)
(* discharge that comes with it, expires; each has one third-party caveat. *)
(* The request's body is RetryableRequest's business; a request that the   *)
(* client makes to obtain a discharge or a token is one step.  A cookie is *)
(* never dropped by the jar while its macaroons are valid, and an expired  *)
(* one is ignored by the service, so that a cookie's own expiry is left    *)
(* out.                                                                    *)
(***************************************************************************)
EXTENDS Integers, Sequences

CONSTANTS
  Threads,
  Requests,              \* [Threads -> the operations that it requests]
  Class,                 \* [operation -> who may perform it, see Classes]
  MaxDischargeRetries,
  AuthnExpiry,           \* in ticks, like all durations
  AuthzExpiry,
  DischargeExpiries,     \* how long discharges are valid
  InteractionMethods,    \* the kinds of the Client's Interactors, in order
  WebBrowser,            \* WebBrowserInteractionKind
  LegacyKinds,           \* the kinds of those that are LegacyInteractors
  Kinds,                 \* the kinds of interaction that third parties offer
  Offers,                \* what third parties say of that, see Offer
  MaxTime                \* a bound on the clock

Ops == DOMAIN Class
Login == "login"

\* Any user; any user who discharges a third-party caveat; nobody.
Classes == {"user", "charged", "nobody"}

Durations == 1..MaxTime

ASSUME ClientAssumption ==
  /\ Requests \in [Threads -> (SUBSET Ops) \ {{}}]
  /\ Class \in [Ops -> Classes]
  /\ Login \notin Ops
  /\ MaxDischargeRetries \in Nat \ {0, 1}
  /\ MaxTime \in Nat
  /\ AuthnExpiry \in Nat \ {0}
  /\ AuthzExpiry \in Nat \ {0}
  /\ DischargeExpiries \subseteq Nat \ {0}
  /\ InteractionMethods \in Seq(Kinds)
  /\ WebBrowser \in Kinds
  /\ LegacyKinds \subseteq Kinds
  /\ Offers \subseteq [methods : SUBSET Kinds, legacy : BOOLEAN]

\* NewMacaroon's, and none; the latter has expired from the start.
Macaroon == [ops : SUBSET (Ops \cup {Login}), until : Nat]
NoMacaroon == [ops |-> {}, until |-> 0]

\* CookieNameSuffix.
Names == {"authn", "authz"}

\* What an interaction-required error offers: ways of the new kind, and of
\* the legacy kind, used when there is none of the new.
Offer == [methods : SUBSET Kinds, legacy : BOOLEAN]
NoOffer == [methods |-> {}, legacy |-> FALSE]

VARIABLES
  now,
  jar,       \* [Names -> Macaroon]: the cookies
  \* Of each Do:
  pc,        \* "idle" between Do's
  op,        \* what it requests
  carried,   \* the cookies sent with it
  retry,     \* discharge-required errors handled
  name,      \* of the last one: its cookie name ...
  mac,       \* ... and its macaroon
  offer,     \* of the last interaction-required error
  next,      \* the Interactor to try next
  events,    \* history: what went wrong in the course of the Do
  result     \* of the last Do

doVars == <<pc, op, carried, retry, name, mac, offer, next, events, result>>
vars == <<now, jar, pc, op, carried, retry, name, mac, offer, next, events, result>>

NoCookies == [n \in Names |-> NoMacaroon]

Init ==
  /\ now = 0
  /\ jar = NoCookies
  /\ pc = [t \in Threads |-> "idle"]
  /\ op = [t \in Threads |-> CHOOSE o \in Requests[t] : TRUE]
  /\ carried = [t \in Threads |-> NoCookies]
  /\ retry = [t \in Threads |-> 0]
  /\ name = [t \in Threads |-> "authn"]
  /\ mac = [t \in Threads |-> NoMacaroon]
  /\ offer = [t \in Threads |-> NoOffer]
  /\ next = [t \in Threads |-> 1]
  /\ events = [t \in Threads |-> {}]
  /\ result = [t \in Threads |-> "none"]

Goto(t, label) == pc' = [pc EXCEPT ![t] = label]

Event(t, e) == events' = [events EXCEPT ![t] = @ \cup {e}]

\* The call's locals go with it.
Return(t, r) ==
  /\ Goto(t, "idle")
  /\ result' = [result EXCEPT ![t] = r]
  /\ carried' = [carried EXCEPT ![t] = NoCookies]
  /\ retry' = [retry EXCEPT ![t] = 0]
  /\ name' = [name EXCEPT ![t] = "authn"]
  /\ mac' = [mac EXCEPT ![t] = NoMacaroon]
  /\ offer' = [offer EXCEPT ![t] = NoOffer]
  /\ next' = [next EXCEPT ![t] = 1]

\* The time-before caveats hold.
Valid(m) == now < m.until

-----------------------------------------------------------------------------
(* Do: the loop of do1.                                                    *)

Do(t, o) ==
  /\ pc[t] = "idle"
  /\ Goto(t, "send")
  /\ op' = [op EXCEPT ![t] = o]
  /\ events' = [events EXCEPT ![t] = {}]
  /\ result' = [result EXCEPT ![t] = "none"]
  /\ UNCHANGED <<now, jar, carried, retry, name, mac, offer, next>>

\* The jar's cookies are added to the request.
Send(t) ==
  /\ pc[t] = "send"
  /\ Goto(t, "sent")
  /\ carried' = [carried EXCEPT ![t] = jar]
  /\ UNCHANGED <<now, jar, op, retry, name, mac, offer, next, events, result>>

-----------------------------------------------------------------------------
(* The service: identchecker's Allow of op[t], and Oven.Error.             *)

Shows(cookies, o) == \E n \in Names : Valid(cookies[n]) /\ o \in cookies[n].ops

HasIdentity(t) == Shows(carried[t], Login)

Authorized(t) ==
  \/ Class[op[t]] = "user" /\ HasIdentity(t)
  \/ Shows(carried[t], op[t])

\* Mutated: an AuthzExpiry that was not set is not replaced by its default.
OvenErrorNoDefault(t, forAuthentication) ==
  /\ name' = [name EXCEPT ![t] = IF forAuthentication THEN "authn" ELSE "authz"]
  /\ mac' = [mac EXCEPT ![t] = IF forAuthentication THEN [ops |-> {Login}, until |-> now + AuthnExpiry]
                                                    ELSE [ops |-> {op[t]}, until |-> now]]

\* A DischargeRequiredError becomes a macaroon, limited in time, and the name
\* of the cookie that is to hold it.
OvenError(t, forAuthentication) ==
  /\ name' = [name EXCEPT ![t] = IF forAuthentication THEN "authn" ELSE "authz"]
  /\ mac' = [mac EXCEPT ![t] = IF forAuthentication THEN [ops |-> {Login}, until |-> now + AuthnExpiry]
                                                    ELSE [ops |-> {op[t]}, until |-> now + AuthzExpiry]]

Serve(t) ==
  /\ pc[t] = "sent"
  /\ Authorized(t)
  /\ Return(t, "served")
  /\ UNCHANGED <<now, jar, op, events>>

\* Permission denied has no WWW-Authenticate header, so that DefaultGetError
\* takes it for an ordinary response.
Deny(t) ==
  /\ pc[t] = "sent"
  /\ ~Authorized(t)
  /\ HasIdentity(t)
  /\ Class[op[t]] # "charged"
  /\ Return(t, "denied")
  /\ UNCHANGED <<now, jar, op, events>>

\* Mutated: one retry too many.
AnotherRetryOnceMore(t) == retry' = [retry EXCEPT ![t] = @ + 1] /\ retry[t] <= MaxDischargeRetries

\* Mutated: for ever.
AnotherRetryUncounted(t) == UNCHANGED retry

AnotherRetry(t) == retry' = [retry EXCEPT ![t] = @ + 1] /\ retry[t] + 1 <= MaxDischargeRetries

DischargeRequired(t) ==
  /\ pc[t] = "sent"
  /\ ~Authorized(t)
  /\ HasIdentity(t) => Class[op[t]] = "charged"

\* do1 goes on to HandleError ...
RequireDischarge(t) ==
  /\ DischargeRequired(t)
  /\ AnotherRetry(t)
  /\ OvenError(t, ~HasIdentity(t))
  /\ Goto(t, "acquire")
  /\ carried' = [carried EXCEPT ![t] = NoCookies]
  /\ UNCHANGED <<now, jar, op, offer, next, events, result>>

\* ... or gives up.
TooMany(t) ==
  /\ DischargeRequired(t)
  /\ ~(retry[t] + 1 <= MaxDischargeRetries)
  /\ Return(t, "too many")
  /\ UNCHANGED <<now, jar, op, events>>

\* client.Do fails, or the response cannot be understood.
DoError(t) ==
  /\ pc[t] = "sent"
  /\ Event(t, "failure")
  /\ Return(t, "error")
  /\ UNCHANGED <<now, jar, op>>

-----------------------------------------------------------------------------
(* AcquireDischarge, called by HandleError; the third party answers.       *)

\* The discharge may be limited in time too.
Discharged(t) ==
  \E d \in DischargeExpiries :
    mac' = [mac EXCEPT ![t].until = IF now + d < @ THEN now + d ELSE @]

Acquire(t) ==
  /\ pc[t] = "acquire"
  /\ Discharged(t)
  /\ Goto(t, "store")
  /\ UNCHANGED <<now, jar, op, carried, retry, name, offer, next, events, result>>

\* An *Error, of any other code than interaction-required.
Refused(t) ==
  /\ pc[t] = "acquire"
  /\ Event(t, "refused")
  /\ Return(t, "discharge error")
  /\ UNCHANGED <<now, jar, op>>

InteractionRequired(t) ==
  /\ pc[t] = "acquire"
  /\ \E o \in Offers : offer' = [offer EXCEPT ![t] = o]
  /\ next' = [next EXCEPT ![t] = 1]
  /\ Event(t, "interaction")
  /\ Goto(t, "interact")
  /\ UNCHANGED <<now, jar, op, carried, retry, name, mac, result>>

\* Mutated: any error of the request is taken for a refusal.
AcquireFailsRefused(t) ==
  /\ pc[t] = "acquire"
  /\ \/ Event(t, "failure")
     \/ Event(t, "interaction")
  /\ Return(t, "discharge error")
  /\ UNCHANGED <<now, jar, op>>

\* No *Error, or an interaction-required error without Info.
AcquireFails(t) ==
  /\ pc[t] = "acquire"
  /\ Event(t, "failure")
  /\ Return(t, "error")
  /\ UNCHANGED <<now, jar, op>>

-----------------------------------------------------------------------------
(* interact.                                                               *)

Legacy(t) == offer[t].methods = {} /\ offer[t].legacy

\* There is no Interactor, or none left.
CannotInteract(t) ==
  /\ pc[t] = "interact"
  /\ next[t] > Len(InteractionMethods)
  /\ Event(t, "failure")
  /\ Return(t, "interaction error")
  /\ UNCHANGED <<now, jar, op>>

Trying(t) ==
  /\ pc[t] = "interact"
  /\ ~Legacy(t)
  /\ next[t] <= Len(InteractionMethods)

Offered(t) == InteractionMethods[next[t]] \in offer[t].methods

\* The kind is not offered, or Interact says ErrInteractionMethodNotFound.
NextMethod(t) ==
  /\ Trying(t)
  /\ next' = [next EXCEPT ![t] = @ + 1]
  /\ IF Offered(t) THEN Event(t, "failure") ELSE UNCHANGED events
  /\ UNCHANGED <<now, jar, pc, op, carried, retry, name, mac, offer, result>>

GotToken(t) ==
  /\ Trying(t)
  /\ Offered(t)
  /\ Goto(t, "token")
  /\ UNCHANGED <<now, jar, op, carried, retry, name, mac, offer, next, events, result>>

\* Interact fails, or returns no token; the causes *InteractionError and
\* *DischargeError are kept.
InteractFails(t) ==
  /\ Trying(t)
  /\ Offered(t)
  /\ \/ Event(t, "failure") /\ Return(t, "error")
     \/ Event(t, "failure") /\ Return(t, "interaction error")
     \/ Event(t, "refused") /\ Return(t, "discharge error")
  /\ UNCHANGED <<now, jar, op>>

\* acquireDischarge again, with the token.
AcquireWithToken(t) ==
  /\ pc[t] = "token"
  /\ Discharged(t)
  /\ Goto(t, "store")
  /\ UNCHANGED <<now, jar, op, carried, retry, name, offer, next, events, result>>

\* Of an error only the causes *InteractionError and *DischargeError are kept,
\* which an *Error from the third party is not.
AcquireWithTokenFails(t) ==
  /\ pc[t] = "token"
  /\ \E e \in {"refused", "failure"} : Event(t, e)
  /\ Return(t, "error")
  /\ UNCHANGED <<now, jar, op>>

-----------------------------------------------------------------------------
(* legacyInteract.                                                         *)

LegacyInteracting(t) ==
  /\ pc[t] = "interact"
  /\ next[t] <= Len(InteractionMethods)
  /\ Legacy(t)

\* The visit URL is asked which methods it knows, unless there is only the
\* web browser; it always knows that.
Known == IF InteractionMethods = <<WebBrowser>> THEN {{WebBrowser}}
                                              ELSE {K \in SUBSET Kinds : WebBrowser \in K}

\* Whether an Interactor can be used, given the methods known.
Suitable(known) ==
  \E i \in 1..Len(InteractionMethods) : InteractionMethods[i] \in LegacyKinds \cap known

LegacyUnsupported(t) ==
  /\ LegacyInteracting(t)
  /\ \E known \in Known : ~Suitable(known)
  /\ Event(t, "failure")
  /\ Return(t, "interaction error")
  /\ UNCHANGED <<now, jar, op>>

\* The first suitable Interactor visits the URL.
LegacyVisit(t) ==
  /\ LegacyInteracting(t)
  /\ \E known \in Known : Suitable(known)
  /\ Goto(t, "wait")
  /\ UNCHANGED <<now, jar, op, carried, retry, name, mac, offer, next, events, result>>

LegacyVisitFails(t) ==
  /\ LegacyInteracting(t)
  /\ Event(t, "failure")
  /\ \/ Return(t, "error")
     \/ /\ \E known \in Known : Suitable(known)
        /\ Return(t, "interaction error")
  /\ UNCHANGED <<now, jar, op>>

\* waitForMacaroon.  After a response without a macaroon the discharge is
\* asked for again, although there is no token.
WaitForMacaroon(t) ==
  /\ pc[t] = "wait"
  /\ \/ Discharged(t) /\ Goto(t, "store")
     \/ Goto(t, "token") /\ UNCHANGED mac
  /\ UNCHANGED <<now, jar, op, carried, retry, name, offer, next, events, result>>

WaitFails(t) ==
  /\ pc[t] = "wait"
  /\ \/ Event(t, "refused") /\ Return(t, "discharge error")
     \/ Event(t, "failure") /\ Return(t, "error")
  /\ UNCHANGED <<now, jar, op>>

-----------------------------------------------------------------------------
\* Whether a macaroon is one that a Do needs.
Useful(t, m) == Valid(m) /\ m.ops \cap {op[t], Login} # {}

\* Whether a Do loses the cookie, if the macaroon replaces it.
Loses(t, n, m) ==
  /\ pc[t] # "idle"
  /\ Useful(t, jar[n])
  /\ m.ops # jar[n].ops \/ ~Valid(m)

\* The rest of HandleError: the macaroon goes into the jar, in place of the
\* cookie of that name.
Store(t) ==
  /\ pc[t] = "store"
  /\ jar' = [jar EXCEPT ![name[t]] = mac[t]]
  /\ Goto(t, "send")
  /\ mac' = [mac EXCEPT ![t] = NoMacaroon]
  /\ name' = [name EXCEPT ![t] = "authn"]
  /\ offer' = [offer EXCEPT ![t] = NoOffer]
  /\ next' = [next EXCEPT ![t] = 1]
  /\ events' = [u \in Threads |->
       IF u # t /\ Loses(u, name[t], mac[t])
       THEN events[u] \cup {"lost"} ELSE events[u]]
  /\ UNCHANGED <<now, op, carried, retry, result>>

\* Whether a macaroon that a Do needs expires: the one it acquires, or one in
\* a cookie that it has sent or is to send.
Expiring(t, time) ==
  \E m \in {mac[t]} \cup {carried[t][n] : n \in Names} \cup {jar[n] : n \in Names} :
    Useful(t, m) /\ m.until <= time

Tick ==
  /\ now < MaxTime
  /\ now' = now + 1
  /\ events' = [t \in Threads |->
       IF pc[t] # "idle" /\ Expiring(t, now + 1) THEN events[t] \cup {"lost"} ELSE events[t]]
  /\ UNCHANGED <<jar, pc, op, carried, retry, name, mac, offer, next, result>>

Step(t) ==
  \/ Send(t)
  \/ Serve(t)
  \/ Deny(t)
  \/ RequireDischarge(t)
  \/ TooMany(t)
  \/ DoError(t)
  \/ Acquire(t)
  \/ Refused(t)
  \/ InteractionRequired(t)
  \/ AcquireFails(t)
  \/ CannotInteract(t)
  \/ NextMethod(t)
  \/ GotToken(t)
  \/ InteractFails(t)
  \/ AcquireWithToken(t)
  \/ AcquireWithTokenFails(t)
  \/ LegacyUnsupported(t)
  \/ LegacyVisit(t)
  \/ LegacyVisitFails(t)
  \/ WaitForMacaroon(t)
  \/ WaitFails(t)
  \/ Store(t)

Next ==
  \/ Tick
  \/ \E t \in Threads : Step(t) \/ \E o \in Requests[t] : Do(t, o)

Spec == Init /\ [][Next]_vars

\* Every request is answered, or fails with its context.
FairSpec == Spec /\ \A t \in Threads : WF_vars(Step(t))

-----------------------------------------------------------------------------
(* Properties.                                                             *)

TypeOK ==
  /\ now \in 0..MaxTime
  /\ jar \in [Names -> Macaroon]
  /\ pc \in [Threads -> {"idle", "send", "sent", "acquire", "interact", "token", "wait", "store"}]
  /\ op \in [Threads -> Ops]
  /\ carried \in [Threads -> [Names -> Macaroon]]
  /\ retry \in [Threads -> 0..MaxDischargeRetries]
  /\ name \in [Threads -> Names]
  /\ mac \in [Threads -> Macaroon]
  /\ offer \in [Threads -> Offer]
  /\ next \in [Threads -> 1..(Len(InteractionMethods) + 1)]
  /\ events \in [Threads -> SUBSET {"failure", "refused", "interaction", "lost"}]
  /\ result \in [Threads -> {"none", "served", "denied", "too many", "error",
                             "discharge error", "interaction error"}]

EntitledRight(t) ==
  /\ result[t] \in {"denied", "too many", "error", "discharge error", "interaction error"}
  /\ Class[op[t]] # "nobody"
  => events[t] \ {"interaction"} # {}

\* A Do of an operation that the user may perform ends with the operation
\* served, unless something went wrong on the way: a failure, a refusal, an
\* interaction that the Client does not support, a macaroon that expired, or
\* one that another Do overwrote.  Authentication and authorization together
\* stay within maxDischargeRetries (client.go, do1; oven.go, Error).
EntitledServed == \A t \in Threads : EntitledRight(t)

ErrorRight(t) ==
  /\ result[t] = "discharge error" => "refused" \in events[t]
  /\ result[t] = "interaction error" => "interaction" \in events[t]

\* A *DischargeError is returned only if a third party refused a discharge,
\* and an *InteractionError only if one asked for interaction.
ErrorsJustified == \A t \in Threads : ErrorRight(t)

\* Every Do returns, whatever the service and the third parties answer.
DoReturns == \A t \in Threads : (pc[t] # "idle") ~> (pc[t] = "idle")

\* client.go, the comment on DoWithContext: "If the required discharges were
\* refused by a third party, an error with a *DischargeError cause will be
\* returned."
RefusalReported ==
  \A t \in Threads :
    pc[t] = "idle" /\ "refused" \in events[t] => result[t] = "discharge error"
-----------------------------------------------------------------------------
(* The inductive invariant behind EntitledServed and ErrorsJustified.      *)

\* What the discharges so far have brought: after one, the identity or the
\* operation itself, after two the latter.
Ahead(t, cookies) ==
  \/ retry[t] = 0
  \/ retry[t] = 1 /\ Shows(cookies, Login)
  \/ retry[t] \in {1, 2} /\ Shows(cookies, op[t])

Acquiring == {"acquire", "interact", "token", "wait", "store"}

\* Where a Do that nothing has gone wrong for has got to.
Progress(t) ==
  /\ pc[t] = "send" => Ahead(t, jar)
  /\ pc[t] = "sent" => Ahead(t, carried[t])
  /\ pc[t] \in Acquiring =>
       /\ Valid(mac[t])
       /\ \/ retry[t] = 1 /\ mac[t].ops = {Login}
          \/ retry[t] \in {1, 2} /\ mac[t].ops = {op[t]}

DoInv(t) ==
  /\ pc[t] # "idle" => result[t] = "none"
  /\ pc[t] = "idle" => retry[t] = 0
  /\ pc[t] = "interact" => "interaction" \in events[t]
  /\ pc[t] # "idle" /\ events[t] \subseteq {"interaction"} => Progress(t)
  /\ EntitledRight(t)
  /\ ErrorRight(t)

\* Of the discharge-required answers that do1 counts an undisturbed Do meets
\* one for its identity and one for its operation: each discharge brings it a
\* cookie that the next attempt carries, whatever the other Do's store.
ClientInv == TypeOK /\ \A t \in Threads : DoInv(t)
=============================================================================

-------------------------- MODULE RetryableRequest --------------------------
(***************************************************************************)
(* httpbakery's retryableRequest and readStopper (request.go) under the    *)
(* loop of Client.do1 (client.go): one request whose body is sent again in *)
(* every attempt.  client.Do returns when the server has answered; the     *)
(* net/http transport of that attempt may go on reading the body, and      *)
(* closes it once or more whenever it likes (Go issue 12796).              *)
(***************************************************************************)
EXTENDS Integers, Sequences, FiniteSets

CONSTANTS
  MaxDischargeRetries,
  BodyLen                \* the body is 1, 2, ..., BodyLen

ASSUME RetryableRequestAssumption ==
  /\ MaxDischargeRetries \in Nat
  /\ BodyLen \in Nat

Attempts == 1..(MaxDischargeRetries + 1)

VARIABLES
  pc,          \* where do1 is
  attempt,     \* attempts begun
  ref,         \* retryableRequest.ref
  stopper,     \* of each attempt: "open" while readStopper.r is not nil
  releasing,   \* transports in readStopper.Close, past its critical section
  conn,        \* of each attempt: "sending" until its transport closes the body
  pos,         \* where the body will be read next
  sent,        \* what each attempt has sent of it
  closes       \* calls of the body's Close

vars == <<pc, attempt, ref, stopper, releasing, conn, pos, sent, closes>>

Init ==
  /\ pc = "prepare"
  /\ attempt = 0
  /\ ref = 1
  /\ stopper = [k \in Attempts |-> "none"]
  /\ releasing = {}
  /\ conn = [k \in Attempts |-> "none"]
  /\ pos = 1
  /\ sent = [k \in Attempts |-> <<>>]
  /\ closes = 0

\* retryableRequest.close: the last one to go closes the body.
Release ==
  /\ ref' = ref - 1
  /\ closes' = IF ref = 1 THEN closes + 1 ELSE closes

-----------------------------------------------------------------------------
(* do1, and prepare for each attempt.                                      *)

PrepareFirst ==
  /\ pc = "prepare"
  /\ attempt = 0
  /\ pc' = "begin"
  /\ UNCHANGED <<attempt, ref, stopper, releasing, conn, pos, sent, closes>>

\* Mutated: the previous attempt's reader is left alone.
StopPreviousNot ==
  /\ pc = "prepare"
  /\ attempt > 0
  /\ pc' = "seek"
  /\ UNCHANGED <<attempt, ref, stopper, releasing, conn, pos, sent, closes>>

\* Mutated: the previous attempt's reader is stopped but its reference kept.
StopPreviousUnreleased ==
  /\ pc = "prepare"
  /\ attempt > 0
  /\ stopper' = [stopper EXCEPT ![attempt] = "closed"]
  /\ pc' = "seek"
  /\ UNCHANGED <<attempt, ref, releasing, conn, pos, sent, closes>>

\* The critical section of readStopper.Close, called by prepare.
StopPrevious ==
  /\ pc = "prepare"
  /\ attempt > 0
  /\ stopper' = [stopper EXCEPT ![attempt] = "closed"]
  /\ pc' = IF stopper[attempt] = "open" THEN "release" ELSE "seek"
  /\ UNCHANGED <<attempt, ref, releasing, conn, pos, sent, closes>>

ReleasePrevious ==
  /\ pc = "release"
  /\ Release
  /\ pc' = "seek"
  /\ UNCHANGED <<attempt, stopper, releasing, conn, pos, sent>>

\* Back to the start of the body, or an error that do1 returns.
Seek ==
  /\ pc = "seek"
  /\ \/ pos' = 1 /\ pc' = "begin"
     \/ pc' = "close" /\ UNCHANGED pos
  /\ UNCHANGED <<attempt, ref, stopper, releasing, conn, sent, closes>>

\* A reference and a readStopper of its own, and client.Do.
Begin ==
  /\ pc = "begin"
  /\ attempt' = attempt + 1
  /\ ref' = ref + 1
  /\ stopper' = [stopper EXCEPT ![attempt + 1] = "open"]
  /\ conn' = [conn EXCEPT ![attempt + 1] = "sending"]
  /\ pc' = "do"
  /\ UNCHANGED <<releasing, pos, sent, closes>>

\* client.Do has returned.  After a discharge-required error, and a
\* successful HandleError, there is another attempt unless too many were made.
Answer ==
  /\ pc = "do"
  /\ \/ pc' = "close"
     \/ attempt <= MaxDischargeRetries /\ pc' = "prepare"
  /\ UNCHANGED <<attempt, ref, stopper, releasing, conn, pos, sent, closes>>

\* The deferred rreq.close().
Close ==
  /\ pc = "close"
  /\ Release
  /\ pc' = "returned"
  /\ UNCHANGED <<attempt, stopper, releasing, conn, pos, sent>>

Do ==
  \/ PrepareFirst
  \/ StopPrevious
  \/ ReleasePrevious
  \/ Seek
  \/ Begin
  \/ Answer
  \/ Close

-----------------------------------------------------------------------------
(* The transport of attempt k.                                             *)

\* readStopper.Read, one element at a time; it is EOF at the end of the body
\* and when the reader has been stopped.
Read(k) ==
  /\ conn[k] = "sending"
  /\ stopper[k] = "open"
  /\ pos <= BodyLen
  /\ sent' = [sent EXCEPT ![k] = Append(@, pos)]
  /\ pos' = pos + 1
  /\ UNCHANGED <<pc, attempt, ref, stopper, releasing, conn, closes>>

\* Mutated: every Close gives up a reference.
TransportCloseAgain(k) ==
  /\ conn[k] # "none"
  /\ conn' = [conn EXCEPT ![k] = "closed"]
  /\ stopper' = [stopper EXCEPT ![k] = "closed"]
  /\ releasing' = releasing \cup {k}
  /\ UNCHANGED <<pc, attempt, ref, pos, sent, closes>>

\* readStopper.Close, its critical section: only the first call, by the
\* transport or by prepare, gives up the attempt's reference.
TransportClose(k) ==
  /\ conn[k] # "none"
  /\ conn' = [conn EXCEPT ![k] = "closed"]
  /\ stopper' = [stopper EXCEPT ![k] = "closed"]
  /\ releasing' = IF stopper[k] = "open" THEN releasing \cup {k} ELSE releasing
  /\ UNCHANGED <<pc, attempt, ref, pos, sent, closes>>

TransportRelease(k) ==
  /\ k \in releasing
  /\ releasing' = releasing \ {k}
  /\ Release
  /\ UNCHANGED <<pc, attempt, stopper, conn, pos, sent>>

Transport(k) == Read(k) \/ TransportClose(k) \/ TransportRelease(k)

Next == Do \/ \E k \in Attempts : Transport(k)

Spec == Init /\ [][Next]_vars

\* do1 goes on, client.Do returns, and net/http closes every body it is given
\* (http.RoundTripper's contract).
FairSpec ==
  /\ Spec
  /\ WF_vars(Do)
  /\ \A k \in Attempts : WF_vars(TransportClose(k)) /\ WF_vars(TransportRelease(k))

-----------------------------------------------------------------------------
(* Properties.                                                             *)

TypeOK ==
  /\ pc \in {"prepare", "release", "seek", "begin", "do", "close", "returned"}
  /\ attempt \in 0..(MaxDischargeRetries + 1)
  /\ ref \in Nat
  /\ stopper \in [Attempts -> {"none", "open", "closed"}]
  /\ releasing \subseteq Attempts
  /\ conn \in [Attempts -> {"none", "sending", "closed"}]
  /\ pos \in 1..(BodyLen + 1)
  /\ sent \in [Attempts -> Seq(1..BodyLen)]
  /\ closes \in Nat

\* Each attempt sends the body from its start without a gap, although the
\* transports of earlier attempts may still be reading (request.go, readStopper).
BodyIntact == \A k \in Attempts : \A i \in 1..Len(sent[k]) : sent[k][i] = i

\* The body is closed at most once, and only when neither do1 nor any
\* transport can use it again (request.go, retryableRequest.close).
ClosedAfterUse ==
  closes > 0 =>
    /\ closes = 1
    /\ pc = "returned"
    /\ \A k \in Attempts : stopper[k] # "open"

\* However the request ends, its body is closed.
BodyClosed == <>(closes = 1)

-----------------------------------------------------------------------------
(* The inductive invariant behind BodyIntact and ClosedAfterUse.           *)

\* The readers that may still read the body, and the users of the body: do1,
\* these readers, and those who have stopped one and are about to say so.
Open == {k \in Attempts : stopper[k] = "open"}

Users == Cardinality(Open) + Cardinality(releasing)
         + (IF pc = "returned" THEN 0 ELSE 1) + (IF pc = "release" THEN 1 ELSE 0)

\* retryableRequest.ref counts the users; the body is closed when it is zero.
Counted ==
  /\ ref = Users
  /\ closes = IF ref = 0 THEN 1 ELSE 0

\* Only the reader of the last attempt may be open, while do1 waits for that
\* attempt or is about to stop it.
LastOpen ==
  /\ \A k \in Open : k = attempt /\ pc \in {"do", "prepare", "close", "returned"}
  /\ \A k \in Attempts : k > attempt => stopper[k] = "none" /\ conn[k] = "none"
  /\ \A k \in releasing : stopper[k] = "closed"
  /\ attempt = 0 => pc \in {"prepare", "begin"}
  /\ pc \in {"prepare", "release", "seek", "begin"} => attempt <= MaxDischargeRetries

\* The body stands where that reader is, and every attempt finds it rewound.
InPlace ==
  /\ \A k \in Open : pos = Len(sent[k]) + 1
  /\ \A k \in Attempts : k > attempt => sent[k] = <<>>
  /\ attempt = 0 \/ pc = "begin" => pos = 1

\* The count of users is right, and only one of them reads, from its place.
BodyInv == TypeOK /\ Counted /\ LastOpen /\ InPlace /\ BodyIntact
=============================================================================

----------------------------- MODULE WCLClient ------------------------------
(***************************************************************************)
(* The WarcraftLogs client (warcraftlogs.DefaultWCL).  Every goroutine     *)
(* that queries the service first gets a token: under c.mu the cached one  *)
(* is reused until a margin before its expiry, and otherwise a new one is  *)
(* requested while the mutex is held.  Time is relative: a token has so    *)
(* many units left, a request has taken so many, and Tick advances them    *)
(* all.  What the client thinks of a token (left) and what the service     *)
(* thinks of it (real) differ by the time the service's answer took.       *)
(***************************************************************************)
EXTENDS Naturals

CONSTANTS
    Callers,    \* goroutines that query: workers of the pollers, handlers
    Timeout,    \* of an HTTP request (main.go)
    Margin,     \* a token is not reused in this time before its expiry
    Lifetimes,  \* lifetimes the service gives its tokens
    Default     \* lifetime assumed of a token that states none

\* A token outlives the request that fetches it and is good for some reuse.
ASSUME TimeAssumption ==
    /\ Timeout \in Nat \ {0} /\ Margin \in Nat /\ Default \in Nat
    /\ Lifetimes \subseteq {l \in Nat : l > Timeout /\ l > Margin}

VARIABLES
    token,      \* c.token and c.tokenExpiry
    call        \* what each caller is doing

vars == <<token, call>>

\* life: the lifetime the service stated, 0 if none.  late: how long the
\* answer took to arrive after the token was issued (history).
NoToken == [there |-> FALSE, left |-> 0, real |-> 0, life |-> 0, late |-> 0,
            revoked |-> FALSE]
NoCall == [at |-> "idle", elapsed |-> 0, real |-> 0, life |-> 0, late |-> 0]

Init ==
    /\ token = NoToken
    /\ call = [c \in Callers |-> NoCall]

-----------------------------------------------------------------------------
\* c.mu: whoever requests a token holds it until the answer is in.
Locked == \E c \in Callers : call[c].at \in {"requesting", "issued"}

\* Mutant: no margin.
FreshUntilExpiry == token.there /\ token.left > 0

\* Mutant: the expiry is not looked at.
FreshForEver == token.there

Fresh == token.there /\ token.left > Margin

Query(c, real, life, late) ==
    call' = [call EXCEPT ![c] = [at |-> "querying", elapsed |-> 0, real |-> real,
                                 life |-> life, late |-> late]]

\* Query is called and waits for the mutex in getToken.
Call(c) ==
    /\ call[c].at = "idle"
    /\ call' = [call EXCEPT ![c].at = "waiting"]
    /\ UNCHANGED token

Reuse(c) ==
    /\ call[c].at = "waiting"
    /\ ~Locked
    /\ Fresh
    /\ Query(c, token.real, token.life, token.late)
    /\ UNCHANGED token

\* Mutant: the cached token is checked before the mutex is taken only.
RequestUnchecked(c) ==
    /\ call[c].at = "waiting"
    /\ ~Locked
    /\ call' = [call EXCEPT ![c].at = "requesting"]
    /\ UNCHANGED token

Request(c) ==
    /\ call[c].at = "waiting"
    /\ ~Locked
    /\ ~Fresh
    /\ call' = [call EXCEPT ![c].at = "requesting"]
    /\ UNCHANGED token

\* The service issues a token, which states its lifetime or does not.
Issue(c) ==
    /\ call[c].at = "requesting"
    /\ \E l \in Lifetimes : \E life \in {l, 0} :
           call' = [call EXCEPT ![c].at = "issued", ![c].real = l, ![c].life = life]
    /\ UNCHANGED token

\* The answer is in: the token is cached and used for this query.
Receive(c) ==
    /\ call[c].at = "issued"
    /\ LET got == call[c] IN
           /\ token' = [there |-> TRUE, left |-> IF got.life > 0 THEN got.life ELSE Default,
                        real |-> got.real, life |-> got.life, late |-> got.late,
                        revoked |-> FALSE]
           /\ Query(c, got.real, got.life, got.late)

\* An error, a bad answer or the timeout of the token request: the caller
\* gets the error, the cached token stays as it was.
RequestFails(c) ==
    /\ call[c].at \in {"requesting", "issued"}
    /\ call' = [call EXCEPT ![c] = NoCall]
    /\ UNCHANGED token

\* Mutant: a query that failed is tried again, without a limit.
QueryEndsInRetry(c) ==
    /\ call[c].at = "querying"
    /\ call' = [call EXCEPT ![c] = [NoCall EXCEPT !.at = "waiting"]]
    /\ UNCHANGED token

\* The query is answered, refused, failed or timed out.  A refusal does not
\* touch the cached token either.
QueryEnds(c) ==
    /\ call[c].at = "querying"
    /\ call' = [call EXCEPT ![c] = NoCall]
    /\ UNCHANGED token

\* The service stops accepting the token before it expires.
Revoke ==
    /\ token.there
    /\ ~token.revoked
    /\ token' = [token EXCEPT !.revoked = TRUE]
    /\ UNCHANGED call

Less(n) == IF n > 0 THEN n - 1 ELSE 0

Aged(k) ==
    [k EXCEPT !.real = Less(@),
              !.elapsed = IF k.at \in {"requesting", "issued", "querying"} THEN @ + 1 ELSE @,
              !.late = IF k.at = "issued" THEN @ + 1 ELSE @]

\* Mutant: an HTTP client without a timeout.
TickWithoutTimeout ==
    /\ \A c \in Callers : call[c].elapsed <= Timeout
    /\ token' = [token EXCEPT !.left = Less(@), !.real = Less(@)]
    /\ call' = [c \in Callers |-> Aged(call[c])]

\* A request that has taken all its time ends before more time passes.
Tick ==
    /\ \A c \in Callers : call[c].elapsed < Timeout
    /\ token' = [token EXCEPT !.left = Less(@), !.real = Less(@)]
    /\ call' = [c \in Callers |-> Aged(call[c])]

Next ==
    \/ \E c \in Callers :
           \/ Call(c) \/ Reuse(c) \/ Request(c) \/ Issue(c) \/ Receive(c)
           \/ RequestFails(c) \/ QueryEnds(c)
    \/ Revoke
    \/ Tick

\* The pollers go on querying, a sync.Mutex starves no one who waits for it,
\* requests end by their timeout, and a service asked again and again for a
\* token in the end gives one.
Fairness ==
    /\ WF_vars(Tick)
    /\ \A c \in Callers :
           /\ WF_vars(Call(c))
           /\ SF_vars(Reuse(c) \/ Request(c))
           /\ WF_vars(Receive(c) \/ RequestFails(c))
           /\ WF_vars(QueryEnds(c))
    /\ SF_vars(\E c \in Callers : Issue(c))
    /\ SF_vars(\E c \in Callers : Receive(c))

Spec == Init /\ [][Next]_vars
FairSpec == Spec /\ Fairness

-----------------------------------------------------------------------------
(* Properties *)

\* No request takes longer than its timeout, no answer arrives later.
TypeOK ==
    /\ token \in [there : BOOLEAN, left : Nat, real : Nat, life : Lifetimes \cup {0},
                  late : 0..Timeout, revoked : BOOLEAN]
    /\ call \in [Callers -> [at : {"idle", "waiting", "requesting", "issued", "querying"},
                             elapsed : 0..Timeout, real : Nat, life : Lifetimes \cup {0},
                             late : 0..Timeout]]

\* A query goes out with a token that the service still accepts, although the
\* client counts its life from when the answer arrived: a token that stated
\* its lifetime and was not revoked has run out under a query only if the
\* answer with the token and this query have together taken longer than the
\* margin (getToken, Query).
QueriedTokenIsValid ==
    \A c \in Callers :
        call[c].at = "querying" /\ call[c].life > 0
            => call[c].real > 0 \/ call[c].late + call[c].elapsed > Margin

\* Callers that waited for the mutex while another one requested a token use
\* that token: one that can still be reused is never replaced (getToken).
UsableTokenKept ==
    [][\A c \in Callers : call[c].at = "issued" /\ call'[c].at = "querying" => ~Fresh]_vars

\* Everybody who asks for a token gets an answer and ends the query, whatever
\* requests the others make under the mutex.
CallEnds == \A c \in Callers : call[c].at = "waiting" ~> call[c].at = "idle"

\* Dead to the service, whatever the client thinks.
Dead == token.there /\ (token.revoked \/ token.real = 0)

\* The client does not react to a refusal, but a token that was revoked or
\* stated no lifetime and ran out is replaced in the end.
DeadTokenReplaced == Dead ~> ~Dead
=============================================================================

-------------------------- MODULE WCLClient_proofs --------------------------
(***************************************************************************)
(* Proofs about WCLClient, for any callers, timeout, margin and lifetimes: *)
(* what the client knows of a token's life is never further from the truth *)
(* than the time its answer took, and the mutex covers the check of the    *)
(* cached token as well as the request for a new one.                      *)
(***************************************************************************)
EXTENDS WCLClient, TLAPS

CallType == [at : {"idle", "waiting", "requesting", "issued", "querying"},
             elapsed : 0..Timeout, real : Nat, life : Lifetimes \cup {0},
             late : 0..Timeout]
TokenType == [there : BOOLEAN, left : Nat, real : Nat, life : Lifetimes \cup {0},
              late : 0..Timeout, revoked : BOOLEAN]

Holds(c) == call[c].at \in {"requesting", "issued"}

\* One goroutine at a time requests a token, and only while none is usable.
LockOK ==
    /\ \A c, d \in Callers : Holds(c) /\ Holds(d) => c = d
    /\ Locked => ~Fresh

\* What a call knows of its token.  An answer is not older than its request;
\* a token has lived for as long as the client thinks and its answer took.
KnownLife(k) ==
    /\ k.at \in {"idle", "waiting", "requesting"} => k.late = 0
    /\ k.at = "issued" => k.late <= k.elapsed
    /\ k.at = "issued" /\ k.life > 0 => k.real + k.late >= k.life
    /\ k.at = "querying" /\ k.life > 0 => k.real + k.late + k.elapsed > Margin

TokenLife == token.there /\ token.life > 0 => token.real + token.late >= token.left

IInv ==
    /\ token \in TokenType
    /\ call \in [Callers -> CallType]
    /\ LockOK
    /\ \A c \in Callers : KnownLife(call[c])
    /\ TokenLife

\* The times of a call are numbers.
LEMMA CallTimes ==
  ASSUME NEW k \in CallType
  PROVE  /\ k.real \in Nat /\ k.life \in Nat /\ k.life \in Lifetimes \cup {0}
         /\ k.late \in 0..Timeout /\ k.elapsed \in 0..Timeout
<1>1. Lifetimes \cup {0} \subseteq Nat
    BY TimeAssumption
<1>2. k.life \in Lifetimes \cup {0} /\ k.real \in Nat
      /\ k.late \in 0..Timeout /\ k.elapsed \in 0..Timeout
    BY DEF CallType
<1>3. k.life \in Nat
    BY <1>1, <1>2
<1>4. QED BY <1>2, <1>3

\* The initial state satisfies the invariant.
LEMMA InitIInv == Init => IInv
BY TimeAssumption DEF Init, IInv, NoToken, NoCall, TokenType, CallType, LockOK, Holds,
       Locked, KnownLife, TokenLife

\* Changing one call to one that is typed and knows its token's life keeps
\* the invariant, if the caller does not take the mutex and the token stays.
LEMMA OneCall ==
  ASSUME IInv, NEW c \in Callers, NEW k \in CallType, KnownLife(k),
         call' = [call EXCEPT ![c] = k], token' = token,
         Holds(c) \/ k.at \notin {"requesting", "issued"}
  PROVE  IInv'
<1>1. call' \in [Callers -> CallType] /\ call'[c] = k
      /\ \A d \in Callers \ {c} : call'[d] = call[d]
    BY DEF IInv
<1>2. \A d \in Callers : Holds(d)' => Holds(d)
    BY <1>1 DEF Holds
<1>3. LockOK'
    BY <1>2 DEF IInv, LockOK, Holds, Locked, Fresh
<1>4. \A d \in Callers : KnownLife(call'[d])
    BY <1>1 DEF IInv
<1>5. QED BY <1>1, <1>3, <1>4 DEF IInv, KnownLife, TokenLife

\* The invariant is inductive.
LEMMA StepIInv == IInv /\ [Next]_vars => IInv'
<1> SUFFICES ASSUME IInv, [Next]_vars PROVE IInv'
    OBVIOUS
<1>0. token \in TokenType /\ call \in [Callers -> CallType]
    BY DEF IInv
<1>1. ASSUME NEW c \in Callers, Call(c) PROVE IInv'
  <2> DEFINE k == [call[c] EXCEPT !.at = "waiting"]
  <2>1. k \in CallType /\ k.at = "waiting"
      BY <1>0 DEF CallType
  <2>2. k.late = 0
      BY <1>0, <1>1 DEF IInv, KnownLife, Call, CallType
  <2>3. KnownLife(k)
      BY <2>1, <2>2 DEF KnownLife
  <2>4. call' = [call EXCEPT ![c] = k] /\ token' = token
      BY <1>1 DEF Call
  <2> HIDE DEF k
  <2>5. QED BY <2>1, <2>3, <2>4, OneCall
<1>2. ASSUME NEW c \in Callers, Reuse(c) PROVE IInv'
  <2> DEFINE k == [at |-> "querying", elapsed |-> 0, real |-> token.real,
                   life |-> token.life, late |-> token.late]
  <2>1. k \in CallType /\ k.at = "querying"
      BY <1>0, TimeAssumption DEF CallType, TokenType
  <2>2. KnownLife(k)
      BY <1>0, <1>2, TimeAssumption DEF Reuse, Fresh, IInv, TokenLife, KnownLife, TokenType
  <2>3. call' = [call EXCEPT ![c] = k] /\ token' = token
      BY <1>2 DEF Reuse, Query
  <2> HIDE DEF k
  <2>4. QED BY <2>1, <2>2, <2>3, OneCall
<1>3. ASSUME NEW c \in Callers, Request(c) PROVE IInv'
  <2>1. call' \in [Callers -> CallType] /\ call'[c].at = "requesting"
        /\ call'[c].late = call[c].late /\ token' = token
        /\ \A d \in Callers \ {c} : call'[d] = call[d]
      BY <1>0, <1>3 DEF Request, CallType
  <2>2. LockOK'
      BY <1>3, <2>1 DEF Request, LockOK, Holds, Locked, Fresh
  <2>3. call[c].late = 0
      BY <1>3 DEF Request, IInv, KnownLife
  <2>4. \A d \in Callers : KnownLife(call'[d])
      BY <2>1, <2>3 DEF IInv, KnownLife
  <2>5. QED BY <2>1, <2>2, <2>4 DEF IInv, KnownLife, TokenLife
<1>4. ASSUME NEW c \in Callers, Issue(c) PROVE IInv'
  <2>1. PICK l \in Lifetimes : \E life \in {l, 0} :
            call' = [call EXCEPT ![c].at = "issued", ![c].real = l, ![c].life = life]
      BY <1>4 DEF Issue
  <2>2. PICK life \in {l, 0} :
            call' = [call EXCEPT ![c].at = "issued", ![c].real = l, ![c].life = life]
      BY <2>1
  <2> DEFINE k == [call[c] EXCEPT !.at = "issued", !.real = l, !.life = life]
  <2>3. l \in Nat /\ life \in Lifetimes \cup {0} /\ life <= l
      BY TimeAssumption
  <2>4. k \in CallType /\ k.at = "issued" /\ k.real = l /\ k.life = life
        /\ k.late = call[c].late /\ k.elapsed = call[c].elapsed
      BY <1>0, <2>3 DEF CallType
  <2>5. call[c].late = 0 /\ call[c].elapsed \in Nat
      BY <1>0, <1>4, TimeAssumption DEF Issue, IInv, KnownLife, CallType
  <2>6. KnownLife(k)
    <3> HIDE DEF k
    <3>1. QED BY <2>3, <2>4, <2>5 DEF KnownLife
  <2>7. call' = [call EXCEPT ![c] = k] /\ token' = token /\ Holds(c)
      BY <1>4, <2>2 DEF Issue, Holds
  <2> HIDE DEF k
  <2>8. QED BY <2>4, <2>6, <2>7, OneCall
<1>5. ASSUME NEW c \in Callers, Receive(c) PROVE IInv'
  <2> DEFINE got == call[c]
  <2>1. got \in CallType /\ KnownLife(got) /\ got.at = "issued"
      BY <1>0, <1>5 DEF Receive, IInv
  <2>2. got.real \in Nat /\ got.life \in Nat /\ got.late \in 0..Timeout
        /\ got.life \in Lifetimes \cup {0}
      BY <2>1, CallTimes
  <2>3. token' \in TokenType
      BY <1>5, <2>2, TimeAssumption DEF Receive, TokenType
  <2>4. TokenLife'
      BY <1>5, <2>1, <2>2, TimeAssumption DEF Receive, TokenLife, KnownLife
  <2>5. call'[c] = [at |-> "querying", elapsed |-> 0, real |-> got.real,
                    life |-> got.life, late |-> got.late]
        /\ \A d \in Callers \ {c} : call'[d] = call[d]
      BY <1>0, <1>5 DEF Receive, Query
  <2>6. call' \in [Callers -> CallType]
    <3>1. [at |-> "querying", elapsed |-> 0, real |-> got.real, life |-> got.life,
           late |-> got.late] \in CallType
        BY <2>2, TimeAssumption DEF CallType
    <3>2. QED BY <1>0, <1>5, <3>1 DEF Receive, Query
  <2>7. KnownLife(call'[c])
      BY <2>1, <2>2, <2>5, TimeAssumption DEF KnownLife
  <2>8. \A d \in Callers : KnownLife(call'[d])
      BY <2>5, <2>7 DEF IInv
  <2>9. \A d \in Callers : ~Holds(d)'
      BY <2>1, <2>5 DEF IInv, LockOK, Holds
  <2>10. LockOK'
      BY <2>9 DEF LockOK, Locked, Holds
  <2>11. QED BY <2>3, <2>4, <2>6, <2>8, <2>10 DEF IInv, KnownLife
<1>6. ASSUME NEW c \in Callers, RequestFails(c) \/ QueryEnds(c) PROVE IInv'
  <2>1. NoCall \in CallType /\ KnownLife(NoCall) /\ NoCall.at = "idle"
      BY TimeAssumption DEF NoCall, CallType, KnownLife
  <2>2. call' = [call EXCEPT ![c] = NoCall] /\ token' = token
      BY <1>6 DEF RequestFails, QueryEnds
  <2>3. QED BY <2>1, <2>2, OneCall
<1>7. CASE Revoke
  <2>1. token' \in TokenType /\ TokenLife' /\ (Fresh' => Fresh)
      BY <1>0, <1>7 DEF Revoke, TokenType, IInv, TokenLife, Fresh
  <2>2. LockOK'
      BY <1>7, <2>1 DEF Revoke, IInv, LockOK, Holds, Locked
  <2>3. QED BY <1>0, <1>7, <2>1, <2>2 DEF Revoke, IInv, KnownLife
<1>8. CASE Tick
  <2>1. \A n \in Nat : Less(n) \in Nat /\ Less(n) <= n /\ n <= Less(n) + 1
      BY DEF Less
  <2>2. token' = [token EXCEPT !.left = Less(@), !.real = Less(@)]
        /\ call' = [d \in Callers |-> Aged(call[d])]
      BY <1>8 DEF Tick
  <2>3. token' \in TokenType
      BY <1>0, <2>1, <2>2 DEF TokenType
  <2>4. TokenLife'
    <3>1. token.left \in Nat /\ token.real \in Nat /\ token.late \in Nat
        BY <1>0, TimeAssumption DEF TokenType
    <3>2. token'.left = Less(token.left) /\ token'.real = Less(token.real)
          /\ token'.late = token.late /\ token'.life = token.life
          /\ token'.there = token.there
        BY <1>0, <2>2 DEF TokenType
    <3>3. QED BY <3>1, <3>2 DEF IInv, TokenLife, Less
  <2>5. Fresh' => Fresh
    <3>1. token'.left <= token.left /\ token'.there = token.there /\ token.left \in Nat
          /\ token'.left \in Nat
        BY <1>0, <2>1, <2>2 DEF TokenType
    <3>2. QED BY <3>1, TimeAssumption DEF Fresh
  <2>6. ASSUME NEW d \in Callers
        PROVE  call'[d] \in CallType /\ KnownLife(call'[d]) /\ call'[d].at = call[d].at
    <3> DEFINE k == call[d]
    <3>1. k \in CallType /\ KnownLife(k) /\ k.elapsed < Timeout
        BY <1>0, <1>8 DEF IInv, Tick
    <3>2. k.elapsed \in Nat /\ k.late \in 0..Timeout /\ k.real \in Nat /\ k.life \in Nat
          /\ k.elapsed + 1 \in 0..Timeout
      <4>1. k.elapsed \in 0..Timeout
          BY <3>1, CallTimes
      <4>2. k.elapsed + 1 \in 0..Timeout
          BY <3>1, <4>1, TimeAssumption
      <4>3. QED BY <3>1, <4>1, <4>2, CallTimes
    <3>3. call'[d] = Aged(k)
        BY <2>2
    <3>4. CASE k.at \in {"idle", "waiting"}
      <4>1. Aged(k) = [k EXCEPT !.real = Less(@)]
          BY <3>1, <3>4 DEF Aged, CallType
      <4>2. QED BY <2>1, <3>1, <3>2, <3>3, <3>4, <4>1 DEF CallType, KnownLife
    <3>5. CASE k.at \in {"requesting", "querying"}
      <4>1. Aged(k) = [k EXCEPT !.real = Less(@), !.elapsed = @ + 1]
          BY <3>1, <3>5 DEF Aged, CallType
      <4>2. call'[d] \in CallType /\ call'[d].at = k.at /\ call'[d].late = k.late
            /\ call'[d].life = k.life /\ call'[d].real = Less(k.real)
            /\ call'[d].elapsed = k.elapsed + 1
          BY <2>1, <3>1, <3>2, <3>3, <4>1 DEF CallType
      <4>3. QED BY <2>1, <3>1, <3>2, <3>5, <4>2, TimeAssumption DEF KnownLife
    <3>6. CASE k.at = "issued"
      <4>1. k.late + 1 \in 0..Timeout
          BY <3>1, <3>2, <3>6, TimeAssumption DEF KnownLife
      <4>2. Aged(k) = [k EXCEPT !.real = Less(@), !.elapsed = @ + 1, !.late = @ + 1]
          BY <3>1, <3>6 DEF Aged, CallType
      <4>3. call'[d] \in CallType /\ call'[d].at = k.at /\ call'[d].late = k.late + 1
            /\ call'[d].life = k.life /\ call'[d].real = Less(k.real)
            /\ call'[d].elapsed = k.elapsed + 1
          BY <2>1, <3>1, <3>2, <3>3, <4>1, <4>2 DEF CallType
      <4>4. QED BY <2>1, <3>1, <3>2, <3>6, <4>3, TimeAssumption DEF KnownLife
    <3>7. QED BY <3>1, <3>4, <3>5, <3>6 DEF CallType
  <2>7. LockOK'
      BY <2>5, <2>6 DEF IInv, LockOK, Holds, Locked
  <2>8. call' \in [Callers -> CallType]
      BY <2>2, <2>6
  <2>9. QED BY <2>3, <2>4, <2>6, <2>7, <2>8 DEF IInv, KnownLife
<1>9. CASE UNCHANGED vars
    BY <1>9 DEF vars, IInv, LockOK, Holds, Locked, Fresh, KnownLife, TokenLife
<1>10. QED
    BY <1>1, <1>2, <1>3, <1>4, <1>5, <1>6, <1>7, <1>8, <1>9 DEF Next

\* The invariant holds throughout every behaviour.
LEMMA Invariance == Spec => []IInv
BY InitIInv, StepIInv, PTL DEF Spec

-----------------------------------------------------------------------------
\* Every reachable state is well typed: no request outlives its timeout.
THEOREM TypeCorrect == Spec => []TypeOK
<1>1. IInv => TypeOK
    BY DEF IInv, TypeOK, TokenType, CallType
<1>2. QED BY <1>1, Invariance, PTL

\* A token that stated its lifetime runs out under a query only if its answer
\* and the query together took longer than the margin.
THEOREM ValidTokens == Spec => []QueriedTokenIsValid
<1>1. IInv => QueriedTokenIsValid
  <2> SUFFICES ASSUME IInv, NEW c \in Callers, call[c].at = "querying", call[c].life > 0
               PROVE  call[c].real > 0 \/ call[c].late + call[c].elapsed > Margin
      BY DEF QueriedTokenIsValid
  <2>1. call[c] \in CallType /\ call[c].real + call[c].late + call[c].elapsed > Margin
      BY DEF IInv, KnownLife
  <2>2. QED BY <2>1, TimeAssumption DEF CallType
<1>2. QED BY <1>1, Invariance, PTL

\* A token that can still be reused is never replaced by another goroutine.
THEOREM NoNeedlessToken == Spec => UsableTokenKept
<1>1. IInv /\ [Next]_vars =>
          [\A c \in Callers : call[c].at = "issued" /\ call'[c].at = "querying" => ~Fresh]_vars
    BY DEF IInv, LockOK, Locked
<1>2. QED BY <1>1, Invariance, PTL DEF Spec, UsableTokenKept
=============================================================================

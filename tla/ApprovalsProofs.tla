-------------------------- MODULE ApprovalsProofs --------------------------
(***************************************************************************)
(* A token allows one execution, of its action and in its time, for any    *)
(* number of callers, actions and permits and any movement of the clock.   *)
(***************************************************************************)
EXTENDS Approvals, FiniteSetTheorems, SequenceTheorems, TLAPS

Challenges == [action : Actions, capabilities : SUBSET ApprovalRequired, expires : Nat]
Signed == [nonce : 1 .. MaxNonce, challenge : Challenges]
Asking(at) ==
    [at : {at}, action : Actions, capabilities : SUBSET ApprovalRequired, token : Signed \cup {NoToken}, now : 0 .. MaxClock]
Issuing == [at : {"issue"}, token : Signed, now : 0 .. MaxClock]

\* What the authority and its callers hold.
PermitTypes ==
    /\ clock \in 0 .. MaxClock /\ counter \in 0 .. MaxNonce
    /\ DOMAIN pending \subseteq 1 .. counter /\ pending = [n \in DOMAIN pending |-> pending[n]]
    /\ \A n \in DOMAIN pending : pending[n] \in Challenges
    /\ DOMAIN used \subseteq 1 .. counter /\ used = [n \in DOMAIN used |-> used[n]]
    /\ \A n \in DOMAIN used : used[n] \in Nat
    /\ call \in [Callers -> {Idle} \cup Asking("challenge") \cup Asking("verify") \cup Issuing]
    /\ tokens \subseteq Signed /\ shown \subseteq Signed
    /\ grants \in Seq([nonce : 1 .. MaxNonce, action : Actions, now : 0 .. MaxClock])

\* A request that has shown a token asks for what its action needs, with a token that was issued.
Presented ==
    \A c \in Callers : call[c].at = "verify" =>
        /\ call[c].token \in tokens
        /\ Required[call[c].action] \subseteq Granted \cup call[c].capabilities

\* A nonce that was granted is below the counter and is not pending any more.
Spent == \A i \in DOMAIN grants : grants[i].nonce \in (1 .. counter) \ DOMAIN pending

PermitInv == PermitTypes /\ Presented /\ Spent /\ PermitSound

\* The invariant holds before the first request.
LEMMA PermitInvInit == ApprovalsInit => PermitInv
<1> SUFFICES ASSUME ApprovalsInit PROVE PermitInv
    OBVIOUS
<1> USE PermitLimits DEF ApprovalsInit
<1>1. DOMAIN pending = {} /\ DOMAIN used = {} /\ DOMAIN grants = {}
    BY DEF Nothing
<1>2. PermitTypes
    BY <1>1 DEF PermitTypes, Nothing
<1>3. Presented /\ Spent
    BY <1>1 DEF Presented, Spent, Idle
<1>4. Cardinality({}) = 0
    BY FS_EmptySet
<1>5. PermitSound
    BY <1>1, <1>4 DEF PermitSound, ApprovalsTypeOK
<1> QED
    BY <1>2, <1>3, <1>5 DEF PermitInv

\* Purging keeps a part of the pending challenges and of the nonces in use.
LEMMA Purged ==
    ASSUME PermitTypes, ApprovalsTypeOK, NEW now
    PROVE  /\ DOMAIN Outstanding(now) \subseteq DOMAIN pending
           /\ \A n \in DOMAIN Outstanding(now) : Outstanding(now)[n] = pending[n] /\ pending[n].expires > now
           /\ DOMAIN Unexpired(used, now) \subseteq DOMAIN used
           /\ \A n \in DOMAIN Unexpired(used, now) : Unexpired(used, now)[n] = used[n]
           /\ IsFiniteSet(DOMAIN Outstanding(now)) /\ Cardinality(DOMAIN Outstanding(now)) \in 0 .. MaxPendingPermits
           /\ IsFiniteSet(DOMAIN Unexpired(used, now)) /\ Cardinality(DOMAIN Unexpired(used, now)) \in 0 .. MaxUsedPermits
<1>1. /\ DOMAIN Outstanding(now) \subseteq DOMAIN pending
      /\ \A n \in DOMAIN Outstanding(now) : Outstanding(now)[n] = pending[n] /\ pending[n].expires > now
      /\ DOMAIN Unexpired(used, now) \subseteq DOMAIN used
      /\ \A n \in DOMAIN Unexpired(used, now) : Unexpired(used, now)[n] = used[n]
    BY DEF Outstanding, Unexpired
<1>2. counter \in Nat
    BY PermitLimits DEF PermitTypes
<1>a. IsFiniteSet(1 .. counter)
    BY <1>2, FS_Interval
<1>3. IsFiniteSet(DOMAIN pending) /\ IsFiniteSet(DOMAIN used)
    BY <1>a, FS_Subset DEF PermitTypes
<1>4. /\ IsFiniteSet(DOMAIN Outstanding(now)) /\ Cardinality(DOMAIN Outstanding(now)) <= Cardinality(DOMAIN pending)
      /\ IsFiniteSet(DOMAIN Unexpired(used, now)) /\ Cardinality(DOMAIN Unexpired(used, now)) <= Cardinality(DOMAIN used)
    BY <1>1, <1>3, FS_Subset
<1>5. {Cardinality(DOMAIN pending), Cardinality(DOMAIN used), Cardinality(DOMAIN Outstanding(now)), Cardinality(DOMAIN Unexpired(used, now))} \subseteq Nat
    BY <1>3, <1>4, FS_CardinalityType
<1>6. Cardinality(DOMAIN Outstanding(now)) \in 0 .. MaxPendingPermits /\ Cardinality(DOMAIN Unexpired(used, now)) \in 0 .. MaxUsedPermits
    BY <1>4, <1>5, PermitLimits DEF ApprovalsTypeOK
<1> QED
    BY <1>1, <1>4, <1>6

\* Nothing a step takes away or adds at the end disturbs what was granted before.
LEMMA GrantsStand ==
    ASSUME PermitInv, ApprovalsTypeOK', UNCHANGED grants, tokens \subseteq tokens'
    PROVE  PermitSound'
    BY DEF PermitInv, PermitSound

\* Every step of the authority, of its callers and of the clock keeps the invariant.
LEMMA PermitInvNext ==
    ASSUME PermitInv, ApprovalsNext
    PROVE  PermitInv'
<1>0. PermitTypes /\ ApprovalsTypeOK /\ Presented /\ Spent
    BY DEF PermitInv, PermitSound
<1>1. CASE Tick
  <2>1. PermitTypes' /\ ApprovalsTypeOK'
      BY <1>0, <1>1 DEF Tick, PermitTypes, ApprovalsTypeOK, Asking, Issuing, Signed, Challenges
  <2>2. Presented' /\ Spent'
      BY <1>0, <1>1 DEF Tick, Presented, Spent
  <2> QED
      BY <1>1, <2>1, <2>2, GrantsStand DEF Tick, PermitInv
<1>2. ASSUME NEW c \in Callers, Authorize(c)
      PROVE  PermitInv'
  <2>1. PICK action \in Actions, token \in tokens \cup {NoToken} :
           LET approval == Required[action] \cap ApprovalRequired IN
           IF ~(Required[action] \subseteq CapabilityMask) \/ approval = {} THEN UNCHANGED call
           ELSE SetCall(c, [at |-> IF token = NoToken THEN "challenge" ELSE "verify",
                        action |-> action, capabilities |-> approval, token |-> token, now |-> clock])
      BY Zenon, <1>2 DEF Authorize
  <2>2. UNCHANGED <<clock, pending, used, counter, tokens, shown, grants>>
      BY <1>2 DEF Authorize
  <2>3. ApprovalsTypeOK' /\ Spent'
      BY <1>0, <2>2 DEF ApprovalsTypeOK, Spent
  <2>4. CASE UNCHANGED call
    <3>1. PermitTypes' /\ Presented'
        BY <1>0, <2>2, <2>4 DEF PermitTypes, Presented, Asking, Issuing, Signed, Challenges
    <3> QED
        BY <2>2, <2>3, <3>1, GrantsStand DEF PermitInv
  <2>5. CASE ~UNCHANGED call
    <3> DEFINE approval == Required[action] \cap ApprovalRequired
               at == IF token = NoToken THEN "challenge" ELSE "verify"
               r == [at |-> at, action |-> action, capabilities |-> approval, token |-> token, now |-> clock]
    <3>1. Required[action] \subseteq CapabilityMask /\ call' = [call EXCEPT ![c] = r]
        BY <2>1, <2>5 DEF SetCall
    <3>2. r \in Asking(at) /\ at \in {"challenge", "verify"}
        BY <1>0 DEF PermitTypes, Asking
    <3>3. call' \in [Callers -> {Idle} \cup Asking("challenge") \cup Asking("verify") \cup Issuing]
        BY <1>0, <3>1, <3>2 DEF PermitTypes
    <3>4. PermitTypes'
        BY <1>0, <2>2, <3>3 DEF PermitTypes
    <3>5. Required[action] \subseteq Granted \cup approval
        BY <3>1 DEF CapabilityMask
    <3>6. at = "verify" => token \in tokens
        OBVIOUS
    <3>7. Presented'
        BY <1>0, <2>2, <3>1, <3>5, <3>6 DEF Presented, PermitTypes
    <3> QED
        BY <2>2, <2>3, <3>4, <3>7, GrantsStand DEF PermitInv
  <2> QED
      BY <2>4, <2>5
<1>3. ASSUME NEW c \in Callers, Verify(c)
      PROVE  PermitInv'
  <2> DEFINE r == call[c]
             n == r.token.nonce
             fine == n \notin DOMAIN Unexpired(used, r.now) /\ Matches(r)
                       /\ Cardinality(DOMAIN Unexpired(used, r.now)) < MaxUsedPermits
  <2>1. r.at = "verify" /\ UNCHANGED <<clock, counter, tokens, shown>>
      BY <1>3 DEF Verify
  <2>2. r \in Asking("verify") /\ r.now \in 0 .. MaxClock
      BY <1>0, <2>1 DEF PermitTypes, Asking, Issuing, Idle
  <2>3. /\ r.token \in tokens /\ Required[r.action] \subseteq Granted \cup r.capabilities
        /\ r.token \in Signed /\ r.action \in Actions /\ n \in 1 .. MaxNonce
      BY <1>0, <2>1, <2>2 DEF Presented, PermitTypes, Asking, Signed
  <2>4. /\ DOMAIN Outstanding(r.now) \subseteq DOMAIN pending
        /\ \A m \in DOMAIN Outstanding(r.now) : Outstanding(r.now)[m] = pending[m] /\ pending[m].expires > r.now
        /\ DOMAIN Unexpired(used, r.now) \subseteq DOMAIN used
        /\ \A m \in DOMAIN Unexpired(used, r.now) : Unexpired(used, r.now)[m] = used[m]
        /\ IsFiniteSet(DOMAIN Outstanding(r.now)) /\ Cardinality(DOMAIN Outstanding(r.now)) \in 0 .. MaxPendingPermits
        /\ IsFiniteSet(DOMAIN Unexpired(used, r.now)) /\ Cardinality(DOMAIN Unexpired(used, r.now)) \in 0 .. MaxUsedPermits
      BY <1>0, Purged
  <2>5. CASE fine
    <3>1. /\ pending' = [m \in DOMAIN Outstanding(r.now) \ {n} |-> pending[m]]
          /\ used' = Holding(Unexpired(used, r.now), n, pending[n].expires)
          /\ call' = [call EXCEPT ![c] = Idle]
          /\ grants' = Append(grants, [nonce |-> n, action |-> r.action, now |-> r.now])
        BY <1>3, <2>5 DEF Verify, Accepted, SetCall
    <3>2. /\ n \in DOMAIN Outstanding(r.now) /\ pending[n] = r.token.challenge
          /\ pending[n].capabilities = r.capabilities /\ pending[n].action = r.action
        BY <2>5 DEF Matches
    <3>3. /\ DOMAIN used' = DOMAIN Unexpired(used, r.now) \cup {n} /\ used'[n] = pending[n].expires
          /\ \A m \in DOMAIN Unexpired(used, r.now) : used'[m] = used[m]
          /\ Cardinality(DOMAIN used') = Cardinality(DOMAIN Unexpired(used, r.now)) + 1
      <4> DEFINE f == Unexpired(used, r.now)
                 v == pending[n].expires
      <4>1. n \notin DOMAIN f /\ IsFiniteSet(DOMAIN f)
          BY <2>4, <2>5
      <4> HIDE DEF f, v, n
      <4>2. /\ DOMAIN Holding(f, n, v) = DOMAIN f \cup {n} /\ Holding(f, n, v)[n] = v
            /\ \A y \in DOMAIN f : Holding(f, n, v)[y] = f[y]
            /\ Cardinality(DOMAIN f \cup {n}) = Cardinality(DOMAIN f) + 1
          BY <4>1, FS_AddElement DEF Holding
      <4>3. used' = Holding(f, n, v)
          BY <3>1 DEF f, v, n
      <4>4. \A m \in DOMAIN f : f[m] = used[m]
          BY <2>4 DEF f
      <4> QED
          BY Zenon, <4>2, <4>3, <4>4 DEF f, v, n
    <3>4. DOMAIN pending' \subseteq DOMAIN Outstanding(r.now) /\ n \notin DOMAIN pending'
          /\ \A m \in DOMAIN pending' : pending'[m] = pending[m]
        BY <3>1
    <3>5. IsFiniteSet(DOMAIN pending') /\ Cardinality(DOMAIN pending') <= Cardinality(DOMAIN Outstanding(r.now))
        BY <2>4, <3>4, FS_Subset
    <3>6. Cardinality(DOMAIN pending') <= MaxPendingPermits
        BY <2>4, <3>5, FS_CardinalityType, PermitLimits
    <3>7. Cardinality(DOMAIN used') <= MaxUsedPermits
        BY <2>4, <2>5, <3>3, PermitLimits
    <3>8. ApprovalsTypeOK'
        BY <1>0, <2>1, <2>4, <3>2, <3>3, <3>4, <3>6, <3>7 DEF ApprovalsTypeOK
    <3>9. grants' \in Seq([nonce : 1 .. MaxNonce, action : Actions, now : 0 .. MaxClock])
        BY <1>0, <2>2, <2>3, <3>1 DEF PermitTypes
    <3>10. call' \in [Callers -> {Idle} \cup Asking("challenge") \cup Asking("verify") \cup Issuing]
        BY <1>0, <3>1 DEF PermitTypes
    <3>11. pending[n].expires \in Nat
        BY <1>0, <2>4, <3>2 DEF PermitTypes, Challenges
    <3>12. pending' = [m \in DOMAIN pending' |-> pending'[m]] /\ used' = [m \in DOMAIN used' |-> used'[m]]
        BY <3>1 DEF Holding
    <3>13. PermitTypes'
        BY <1>0, <2>1, <2>4, <3>2, <3>3, <3>4, <3>9, <3>10, <3>11, <3>12 DEF PermitTypes
    <3>14. Presented'
        BY <1>0, <2>1, <3>1 DEF Presented, PermitTypes, Idle
    <3>15. /\ DOMAIN grants' = 1 .. Len(grants) + 1 /\ DOMAIN grants = 1 .. Len(grants) /\ Len(grants) \in Nat
           /\ \A i \in DOMAIN grants : grants'[i] = grants[i]
           /\ grants'[Len(grants) + 1] = [nonce |-> n, action |-> r.action, now |-> r.now]
        BY <1>0, <2>2, <2>3, <3>1 DEF PermitTypes
    <3>16. n \in 1 .. counter /\ n \in DOMAIN pending
        BY <1>0, <2>4, <3>2 DEF PermitTypes
    <3>17. Spent'
        BY <1>0, <2>1, <2>4, <3>4, <3>15, <3>16 DEF Spent
    <3>18. \A i \in DOMAIN grants : grants[i].nonce # n
        BY <1>0, <3>16 DEF Spent
    <3>19. \A i, j \in DOMAIN grants' : grants'[i].nonce = grants'[j].nonce => i = j
        BY <3>15, <3>18 DEF PermitInv, PermitSound
    <3>20. /\ r.token.nonce = n /\ r.token.challenge.action = r.action /\ r.now < r.token.challenge.expires
           /\ Required[r.action] \subseteq Granted \cup r.token.challenge.capabilities
        BY <2>2, <2>3, <2>4, <3>2, <3>11
    <3>21. PermitSound'
        BY <2>1, <2>3, <3>8, <3>15, <3>19, <3>20 DEF PermitInv, PermitSound
    <3> QED
        BY <3>13, <3>14, <3>17, <3>21 DEF PermitInv
  <2>6. CASE ~fine
    <3>1. /\ pending' = Outstanding(r.now) /\ used' = Unexpired(used, r.now) /\ UNCHANGED grants
          /\ call' = [call EXCEPT ![c] = [r EXCEPT !.at = "challenge", !.now = clock]]
        BY <1>3, <2>6 DEF Verify, SetCall
    <3>2. [r EXCEPT !.at = "challenge", !.now = clock] \in Asking("challenge")
        BY Zenon, <1>0, <2>2 DEF PermitTypes, Asking
    <3>3. call' \in [Callers -> {Idle} \cup Asking("challenge") \cup Asking("verify") \cup Issuing]
        BY <1>0, <3>1, <3>2 DEF PermitTypes
    <3>4. PermitTypes'
        BY <1>0, <2>1, <2>4, <3>1, <3>3 DEF PermitTypes, Outstanding, Unexpired
    <3>5. ApprovalsTypeOK'
        BY <1>0, <2>1, <2>4, <3>1 DEF ApprovalsTypeOK
    <3>6. Presented'
        BY <1>0, <2>1, <2>2, <3>1 DEF Presented, PermitTypes, Asking
    <3>7. Spent'
        BY <1>0, <2>1, <2>4, <3>1 DEF Spent
    <3> QED
        BY <2>1, <3>1, <3>4, <3>5, <3>6, <3>7, GrantsStand DEF PermitInv
  <2> QED
      BY <2>5, <2>6
<1>4. ASSUME NEW c \in Callers, Challenge(c)
      PROVE  PermitInv'
  <2> DEFINE r == call[c]
             n == counter + 1
             challenge == [action |-> r.action, capabilities |-> r.capabilities, expires |-> r.now + Ttl]
  <2>1. /\ r.at = "challenge" /\ counter < MaxNonce /\ counter' = n /\ UNCHANGED <<clock, tokens, grants>>
        /\ call' = [call EXCEPT ![c] = Idle] /\ used' = Unexpired(used, r.now)
        /\ \/ /\ pending' = Outstanding(r.now) /\ UNCHANGED shown
           \/ /\ Cardinality(DOMAIN Outstanding(r.now)) < MaxPendingPermits
              /\ pending' = Holding(Outstanding(r.now), n, challenge)
              /\ shown' \in {shown, shown \cup {[nonce |-> n, challenge |-> challenge]}}
    <3>1. /\ r.at = "challenge" /\ counter < MaxNonce /\ counter' = n /\ UNCHANGED <<clock, tokens, grants>>
          /\ call' = [call EXCEPT ![c] = Idle] /\ used' = Unexpired(used, r.now)
          /\ IF Cardinality(DOMAIN Outstanding(r.now)) >= MaxPendingPermits
             THEN pending' = Outstanding(r.now) /\ UNCHANGED shown
             ELSE /\ pending' = Holding(Outstanding(r.now), n, challenge)
                  /\ shown' \in {shown, shown \cup {[nonce |-> n, challenge |-> challenge]}}
        BY <1>4 DEF Challenge, SetCall
    <3>2. Cardinality(DOMAIN Outstanding(r.now)) \in Nat
        BY <1>0, Purged
    <3> QED
        BY <3>1, <3>2, PermitLimits
  <2>2. r \in Asking("challenge") /\ r.now \in 0 .. MaxClock
      BY <1>0, <2>1 DEF PermitTypes, Asking, Issuing, Idle
  <2>3. /\ DOMAIN Outstanding(r.now) \subseteq DOMAIN pending
        /\ \A m \in DOMAIN Outstanding(r.now) : Outstanding(r.now)[m] = pending[m] /\ pending[m].expires > r.now
        /\ DOMAIN Unexpired(used, r.now) \subseteq DOMAIN used
        /\ \A m \in DOMAIN Unexpired(used, r.now) : Unexpired(used, r.now)[m] = used[m]
        /\ IsFiniteSet(DOMAIN Outstanding(r.now)) /\ Cardinality(DOMAIN Outstanding(r.now)) \in 0 .. MaxPendingPermits
        /\ IsFiniteSet(DOMAIN Unexpired(used, r.now)) /\ Cardinality(DOMAIN Unexpired(used, r.now)) \in 0 .. MaxUsedPermits
      BY <1>0, Purged
  <2>4. counter \in Nat /\ n \in 1 .. MaxNonce /\ (1 .. counter) \subseteq (1 .. n) /\ n \notin 1 .. counter
      BY <1>0, <2>1, PermitLimits DEF PermitTypes
  <2>5. challenge \in Challenges /\ [nonce |-> n, challenge |-> challenge] \in Signed
      BY <2>2, <2>4, PermitLimits DEF Asking, Challenges, Signed
  <2>6. n \notin DOMAIN Outstanding(r.now)
      BY <1>0, <2>3, <2>4 DEF PermitTypes
  <2>7. /\ DOMAIN pending' \subseteq DOMAIN Outstanding(r.now) \cup {n}
        /\ \A m \in DOMAIN pending' : pending'[m] = pending[m] \/ (m = n /\ pending'[m] = challenge)
        /\ Cardinality(DOMAIN pending') <= MaxPendingPermits
        /\ pending' = [m \in DOMAIN pending' |-> pending'[m]]
    <3>1. CASE pending' = Outstanding(r.now)
        BY <2>3, <3>1 DEF Outstanding
    <3>2. CASE /\ Cardinality(DOMAIN Outstanding(r.now)) < MaxPendingPermits
               /\ pending' = Holding(Outstanding(r.now), n, challenge)
      <4>1. /\ DOMAIN pending' = DOMAIN Outstanding(r.now) \cup {n} /\ pending'[n] = challenge
            /\ \A m \in DOMAIN Outstanding(r.now) : pending'[m] = Outstanding(r.now)[m]
            /\ Cardinality(DOMAIN pending') = Cardinality(DOMAIN Outstanding(r.now)) + 1
        <5> DEFINE f == Outstanding(r.now)
        <5>1. n \notin DOMAIN f /\ IsFiniteSet(DOMAIN f)
            BY <2>3, <2>6
        <5> HIDE DEF f, n, challenge
        <5>2. /\ DOMAIN Holding(f, n, challenge) = DOMAIN f \cup {n} /\ Holding(f, n, challenge)[n] = challenge
              /\ \A y \in DOMAIN f : Holding(f, n, challenge)[y] = f[y]
              /\ Cardinality(DOMAIN f \cup {n}) = Cardinality(DOMAIN f) + 1
            BY <5>1, FS_AddElement DEF Holding
        <5>3. pending' = Holding(f, n, challenge)
            BY <3>2 DEF f, n, challenge
        <5> QED
            BY <5>2, <5>3 DEF f, n, challenge
      <4>2. Cardinality(DOMAIN pending') <= MaxPendingPermits
          BY <2>3, <3>2, <4>1, PermitLimits
      <4>3. pending' = [m \in DOMAIN pending' |-> pending'[m]]
          BY <3>2 DEF Holding
      <4> QED
          BY <2>3, <4>1, <4>2, <4>3
    <3> QED
        BY <2>1, <3>1, <3>2
  <2>8. \A m \in DOMAIN pending' : m \in 1 .. n /\ pending'[m] \in Challenges
    <3>1. \A m \in DOMAIN pending' : m # n => m \in DOMAIN pending /\ pending'[m] = pending[m]
        BY <2>3, <2>7
    <3>2. \A m \in DOMAIN pending' : m = n => pending'[m] = challenge
        BY <2>1, <2>6 DEF Holding
    <3> QED
        BY <1>0, <2>4, <2>5, <3>1, <3>2 DEF PermitTypes
  <2>9. shown' \subseteq Signed
      BY <1>0, <2>1, <2>5 DEF PermitTypes
  <2>10. call' \in [Callers -> {Idle} \cup Asking("challenge") \cup Asking("verify") \cup Issuing]
      BY <1>0, <2>1 DEF PermitTypes
  <2>11. /\ DOMAIN used' \subseteq 1 .. n /\ (\A m \in DOMAIN used' : used'[m] \in Nat)
         /\ used' = [m \in DOMAIN used' |-> used'[m]]
      BY <1>0, <2>1, <2>3, <2>4 DEF PermitTypes, Unexpired
  <2>12. PermitTypes'
      BY <1>0, <2>1, <2>4, <2>7, <2>8, <2>9, <2>10, <2>11 DEF PermitTypes
  <2>13. ApprovalsTypeOK'
      BY <1>0, <2>1, <2>3, <2>4, <2>7, <2>8, <2>11 DEF ApprovalsTypeOK
  <2>14. Presented'
      BY <1>0, <2>1 DEF Presented, PermitTypes, Idle
  <2>15. Spent'
      BY <1>0, <2>1, <2>3, <2>4, <2>7 DEF Spent
  <2> QED
      BY <2>1, <2>12, <2>13, <2>14, <2>15, GrantsStand DEF PermitInv
<1>5. ASSUME NEW c \in Callers, Approve(c)
      PROVE  PermitInv'
  <2>1. /\ UNCHANGED <<clock, pending, used, counter, tokens, shown, grants>>
        /\ \E s \in shown : UNCHANGED call \/ SetCall(c, [at |-> "issue", token |-> s, now |-> clock])
      BY <1>5 DEF Approve
  <2>2. call' \in [Callers -> {Idle} \cup Asking("challenge") \cup Asking("verify") \cup Issuing]
        /\ \A d \in Callers : call'[d] = call[d] \/ call'[d].at = "issue"
    <3>1. PICK s \in shown : UNCHANGED call \/ call' = [call EXCEPT ![c] = [at |-> "issue", token |-> s, now |-> clock]]
        BY <2>1 DEF SetCall
    <3>2. [at |-> "issue", token |-> s, now |-> clock] \in Issuing
        BY <1>0 DEF PermitTypes, Issuing
    <3>3. call' \in [Callers -> {Idle} \cup Asking("challenge") \cup Asking("verify") \cup Issuing]
        BY <1>0, <3>1, <3>2 DEF PermitTypes
    <3>4. \A d \in Callers : call'[d] = call[d] \/ call'[d] = [at |-> "issue", token |-> s, now |-> clock]
        BY <1>0, <3>1 DEF PermitTypes
    <3> QED
        BY <3>3, <3>4
  <2>3. PermitTypes' /\ ApprovalsTypeOK' /\ Spent'
      BY <1>0, <2>1, <2>2 DEF PermitTypes, ApprovalsTypeOK, Spent
  <2>4. Presented'
      BY <1>0, <2>1, <2>2 DEF Presented
  <2> QED
      BY <2>1, <2>3, <2>4, GrantsStand DEF PermitInv
<1>6. ASSUME NEW c \in Callers, Issue(c)
      PROVE  PermitInv'
  <2> DEFINE r == call[c]
  <2>1. /\ r.at = "issue" /\ pending' = Outstanding(r.now) /\ used' = Unexpired(used, r.now)
        /\ tokens' \in {tokens, tokens \cup {r.token}}
        /\ call' = [call EXCEPT ![c] = Idle] /\ UNCHANGED <<clock, counter, shown, grants>>
      BY <1>6 DEF Issue, SetCall
  <2>2. r.token \in Signed
      BY <1>0, <2>1 DEF PermitTypes, Asking, Issuing, Idle
  <2>3. /\ DOMAIN Outstanding(r.now) \subseteq DOMAIN pending
        /\ \A m \in DOMAIN Outstanding(r.now) : Outstanding(r.now)[m] = pending[m] /\ pending[m].expires > r.now
        /\ DOMAIN Unexpired(used, r.now) \subseteq DOMAIN used
        /\ \A m \in DOMAIN Unexpired(used, r.now) : Unexpired(used, r.now)[m] = used[m]
        /\ IsFiniteSet(DOMAIN Outstanding(r.now)) /\ Cardinality(DOMAIN Outstanding(r.now)) \in 0 .. MaxPendingPermits
        /\ IsFiniteSet(DOMAIN Unexpired(used, r.now)) /\ Cardinality(DOMAIN Unexpired(used, r.now)) \in 0 .. MaxUsedPermits
      BY <1>0, Purged
  <2>4. call' \in [Callers -> {Idle} \cup Asking("challenge") \cup Asking("verify") \cup Issuing]
      BY <1>0, <2>1 DEF PermitTypes
  <2>5. PermitTypes'
      BY <1>0, <2>1, <2>2, <2>3, <2>4 DEF PermitTypes, Outstanding, Unexpired
  <2>6. ApprovalsTypeOK'
      BY <1>0, <2>1, <2>3 DEF ApprovalsTypeOK
  <2>7. Presented'
      BY <1>0, <2>1 DEF Presented, PermitTypes, Idle
  <2>8. Spent'
      BY <1>0, <2>1, <2>3 DEF Spent
  <2> QED
      BY <2>1, <2>5, <2>6, <2>7, <2>8, GrantsStand DEF PermitInv
<1> QED
    BY <1>1, <1>2, <1>3, <1>4, <1>5, <1>6 DEF ApprovalsNext

\* A token allows one execution, of the action it was issued for, before it expires, however
\* many requests ask at once, whatever the caches have forgotten and wherever the clock goes
\* (authorization.rs PermitAuthority).
THEOREM PermitSafety == ApprovalsInit /\ [][ApprovalsNext]_approvalVars => []PermitSound
<1>1. PermitInv /\ UNCHANGED approvalVars => PermitInv'
    BY DEF PermitInv, PermitTypes, Presented, Spent, PermitSound, ApprovalsTypeOK, approvalVars
<1>2. PermitInv => PermitSound
    BY DEF PermitInv
<1> QED
    BY PermitInvInit, PermitInvNext, <1>1, <1>2, PTL
=============================================================================

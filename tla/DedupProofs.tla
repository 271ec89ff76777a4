---------------------------- MODULE DedupProofs -----------------------------
(***************************************************************************)
(* Theorems about Dedup for every clock resolution, shortest life, set of  *)
(* ends and set of callers.                                                *)
(***************************************************************************)
EXTENDS Dedup, TLAPS

USE DEF Forever, NoKey

(* Truncation to whole seconds loses less than a second.                   *)
LEMMA TruncationLosesLessThanASecond ==
    ASSUME NEW left \in Nat
    PROVE  /\ WholeSeconds(left) \in Nat /\ WholeSeconds(left) <= left
           /\ WholeSeconds(left) > left - SEC
<1>1. left % SEC \in 0 .. SEC - 1 /\ left % SEC <= left
  BY TimeAssumption
<1> QED
  BY <1>1, TimeAssumption DEF WholeSeconds

(* The life computed for a key reaches into the last second before the end *)
(* and is never shorter than the shortest life.                            *)
LEMMA LifeLongEnough ==
    ASSUME NEW end \in End, now \in Nat, end \in Ends => end > now
    PROVE  /\ Life(end) \in Ttl
           /\ end \in Ends => /\ Life(end) # Forever /\ Life(end) >= MinTtl
                              /\ now + Life(end) > end - SEC
           /\ end = NoEnd <=> Life(end) = Forever
<1>1. CASE end \in Ends
  <2>1. end \in Nat /\ end # NoEnd /\ end # BadEnd /\ end - now \in Nat
    BY <1>1, TimeAssumption
  <2>2. /\ WholeSeconds(end - now) \in Nat
        /\ WholeSeconds(end - now) > (end - now) - SEC
    BY <2>1, TruncationLosesLessThanASecond
  <2>3. Life(end) = IF WholeSeconds(end - now) > MinTtl THEN WholeSeconds(end - now) ELSE MinTtl
    BY <2>1 DEF Life
  <2> QED
    BY <1>1, <2>1, <2>2, <2>3, TimeAssumption DEF Ttl
<1>2. CASE end = NoEnd
  BY <1>2, TimeAssumption DEF Life, Ttl
<1>3. CASE end = BadEnd
  <2>1. end \notin Ends /\ end # NoEnd
    BY <1>3, TimeAssumption
  <2>2. Life(end) = BadEndTtl
    BY <1>3, <2>1 DEF Life
  <2> QED
    BY <2>1, <2>2, TimeAssumption DEF Ttl
<1> QED
  BY <1>1, <1>2, <1>3 DEF End

(* What the type invariant says of one claim, and of one decision.         *)
LEMMA ClaimTyped ==
    ASSUME TypeOK, NEW k \in 1 .. Len(claims)
    PROVE  /\ claims[k] \in Claim /\ claims[k].at \in Nat /\ claims[k].end \in End
           /\ claims[k].end \in Ends => claims[k].end \in Nat
<1>1. claims[k] \in Claim
  BY DEF TypeOK
<1>2. claims[k].at \in Nat /\ claims[k].end \in End
  BY <1>1 DEF Claim
<1> QED
  BY <1>1, <1>2, TimeAssumption

(* A question has a time that ends and one to live.                        *)
LEMMA AskTyped ==
    ASSUME TypeOK, NEW c \in Caller
    PROVE  /\ ask[c].end \in End /\ ask[c].ttl \in Ttl \cup {0}
           /\ ask[c].end \in Ends => ask[c].end \in Nat
<1>1. ask[c] \in [end : End, ttl : Ttl \cup {0}]
  BY DEF TypeOK
<1>2. ask[c].end \in End /\ ask[c].ttl \in Ttl \cup {0}
  BY <1>1
<1> QED
  BY <1>2, TimeAssumption

(* Storing the hash keeps the invariant.                                   *)
LEMMA SetStep ==
    ASSUME IInv, NEW c \in Caller, Set(c)
    PROVE  IInv'
<1> DEFINE new == [at |-> now, end |-> ask[c].end]
           n == Len(claims)
<1>0. /\ now \in Nat /\ expires \in Nat \cup {Forever, NoKey} /\ claims \in Seq(Claim)
      /\ n \in Nat /\ ask[c].end \in End /\ ask[c].ttl \in Ttl \cup {0}
      /\ ask[c] # None /\ now' = now /\ ask' = [ask EXCEPT ![c] = None]
      /\ ask[c].end \in Ends => ask[c].end \in Nat
  BY AskTyped DEF IInv, TypeOK, Set
<1>1. /\ None \in [end : End, ttl : Ttl \cup {0}]
      /\ ask' \in [Caller -> [end : End, ttl : Ttl \cup {0}]]
  BY <1>0 DEF IInv, TypeOK, None, End
<1>2. AskOK'
  BY <1>0 DEF IInv, AskOK, TypeOK
<1>3. CASE ~Gone
  <2>1. UNCHANGED <<expires, claims, now>>
    BY <1>3 DEF Set
  <2> QED
    BY <1>0, <1>1, <1>2, <2>1 DEF IInv, TypeOK, KeyOutlives, ReclaimedOnlyAtEnd, ClaimsApart
<1>4. CASE Gone
  <2>1. /\ expires' = IF ask[c].ttl = Forever THEN Forever ELSE now + ask[c].ttl
        /\ claims' = Append(claims, new)
    BY <1>4 DEF Set
  <2>2. /\ claims' \in Seq(Claim) /\ Len(claims') = n + 1 /\ claims'[n + 1] = new
        /\ \A k \in 1 .. n : claims'[k] = claims[k] /\ claims[k] \in Claim
    <3>1. new \in Claim
      BY <1>0 DEF Claim
    <3>2. \A k \in 1 .. n : claims[k] \in Claim
      BY <1>0
    <3> HIDE DEF new
    <3> QED
      BY <1>0, <2>1, <3>1, <3>2
  <2>3. /\ ask[c].end \in Ends =>
              ask[c].ttl # Forever /\ ask[c].ttl >= MinTtl /\ now + ask[c].ttl > ask[c].end - SEC
        /\ ask[c].end = NoEnd <=> ask[c].ttl = Forever
    BY <1>0 DEF IInv, AskOK
  <2>4. expires' \in Nat \cup {Forever} /\ (ask[c].ttl # Forever => expires' = now + ask[c].ttl)
    BY <1>0, <2>1 DEF Ttl
  <2>5. ASSUME NEW k \in 1 .. n
        PROVE  /\ claims[k].at \in Nat /\ claims[k].at <= now /\ claims[k].end # NoEnd
               /\ expires \in Nat /\ expires <= now
               /\ claims[k].end \in Ends =>
                     now > claims[k].end - SEC /\ now >= claims[k].at + MinTtl
    <3>1. /\ claims[k].at \in Nat /\ claims[k].at <= now
          /\ claims[k].end = NoEnd => expires = Forever
          /\ claims[k].end \in Ends /\ expires # Forever =>
                expires > claims[k].end - SEC /\ expires >= claims[k].at + MinTtl
          /\ expires # NoKey
      BY <1>0, <2>2 DEF IInv, KeyOutlives, Claim
    <3>2. expires \in Nat /\ expires <= now
      BY <1>0, <1>4, <3>1 DEF Gone
    <3>3. claims[k].end \in Ends => claims[k].end \in Nat
      BY TimeAssumption
    <3> QED
      BY <1>0, <3>1, <3>2, <3>3, TimeAssumption, SMTT(60)
  <2>6. TypeOK'
    BY <1>0, <1>1, <2>2, <2>4 DEF TypeOK
  <2>7. KeyOutlives'
    <3> SUFFICES ASSUME NEW k \in 1 .. n + 1
                 PROVE  /\ claims'[k].at <= now
                        /\ claims'[k].end = NoEnd => expires' = Forever
                        /\ claims'[k].end \in Ends /\ expires' # Forever =>
                              expires' > claims'[k].end - SEC /\ expires' >= claims'[k].at + MinTtl
                        /\ expires' # NoKey
      BY <1>0, <2>2 DEF KeyOutlives
    <3>1. CASE k = n + 1
      <4>1. claims'[k].at = now /\ claims'[k].end = ask[c].end
        BY <2>2, <3>1
      <4>2. ask[c].end \in Ends => expires' = now + ask[c].ttl /\ ask[c].ttl >= MinTtl
        BY <2>3, <2>4
      <4>3. ask[c].end = NoEnd => expires' = Forever
        BY <2>1, <2>3
      <4>4. ask[c].ttl # Forever => ask[c].ttl \in Nat
        BY <1>0 DEF Ttl
      <4> QED
        BY <1>0, <2>3, <2>4, <4>1, <4>2, <4>3, <4>4, TimeAssumption
    <3>2. CASE k \in 1 .. n
      <4>1. claims[k].end \in Ends => claims[k].end \in Nat
        BY TimeAssumption
      <4>2. expires' # Forever => expires' \in Nat /\ expires' >= now
        BY <1>0, <2>1, <2>4 DEF Ttl
      <4> QED
        BY <1>0, <2>2, <2>4, <2>5, <3>2, <4>1, <4>2, TimeAssumption, SMTT(60)
    <3> QED
      BY <1>0, <3>1, <3>2
  <2>8. ReclaimedOnlyAtEnd'
    <3> SUFFICES ASSUME NEW j \in 1 .. n + 1, NEW k \in 1 .. n + 1, j < k, claims'[j].end \in Ends
                 PROVE  claims'[k].at > claims'[j].end - SEC
      BY <1>0, <2>2 DEF ReclaimedOnlyAtEnd
    <3>1. CASE k = n + 1
      BY <1>0, <2>2, <2>5, <3>1
    <3>2. CASE k \in 1 .. n
      BY <1>0, <2>2, <3>2 DEF IInv, ReclaimedOnlyAtEnd
    <3> QED
      BY <1>0, <3>1, <3>2
  <2>9. ClaimsApart'
    <3> SUFFICES ASSUME NEW j \in 1 .. n + 1, NEW k \in 1 .. n + 1, j < k
                 PROVE  /\ claims'[j].end \in Ends => claims'[k].at >= claims'[j].at + MinTtl
                        /\ claims'[j].end # NoEnd
      BY <1>0, <2>2 DEF ClaimsApart
    <3>1. CASE k = n + 1
      BY <1>0, <2>2, <2>5, <3>1
    <3>2. CASE k \in 1 .. n
      BY <1>0, <2>2, <3>2 DEF IInv, ClaimsApart
    <3> QED
      BY <1>0, <3>1, <3>2
  <2> QED
    BY <1>2, <2>6, <2>7, <2>8, <2>9 DEF IInv
<1> QED
  BY <1>3, <1>4

(* The inductive invariant.                                                *)
THEOREM Invariant == Spec => []IInv
<1>1. Init => IInv
  <2> SUFFICES ASSUME Init PROVE IInv
    OBVIOUS
  <2>1. TypeOK
    BY DEF Init, TypeOK, None, End, Ttl
  <2> QED
    BY <2>1 DEF Init, IInv, AskOK, KeyOutlives, ReclaimedOnlyAtEnd, ClaimsApart
<1>2. IInv /\ [Next]_vars => IInv'
  <2> SUFFICES ASSUME IInv, [Next]_vars PROVE IInv'
    OBVIOUS
  <2>1. CASE Tick
    <3>1. /\ now \in Nat /\ now' = now + 1 /\ UNCHANGED <<expires, ask, claims>>
          /\ claims \in Seq(Claim)
      BY <2>1 DEF Tick, IInv, TypeOK
    <3>2. AskOK'
      <4> SUFFICES ASSUME NEW c \in Caller, ask[c].end \in Ends, ask[c] # None
                   PROVE  now' + ask[c].ttl > ask[c].end - SEC
        BY <3>1 DEF IInv, AskOK
      <4>1. /\ ask[c].ttl \in Nat \cup {Forever} /\ ask[c].end \in Nat
            /\ now + ask[c].ttl > ask[c].end - SEC
        BY AskTyped DEF IInv, AskOK, Ttl
      <4> QED
        BY <3>1, <4>1, TimeAssumption, SMTT(60)
    <3>3. KeyOutlives'
      <4> SUFFICES ASSUME NEW k \in 1 .. Len(claims) PROVE claims[k].at <= now'
        BY <3>1 DEF IInv, KeyOutlives
      <4>1. claims[k].at \in Nat /\ claims[k].at <= now
        BY ClaimTyped DEF IInv, KeyOutlives
      <4> QED
        BY <3>1, <4>1
    <3> QED
      BY <3>1, <3>2, <3>3 DEF IInv, TypeOK, ReclaimedOnlyAtEnd, ClaimsApart
  <2>2. ASSUME NEW c \in Caller, NEW end \in End, Decide(c, end) PROVE IInv'
    <3>1. /\ now \in Nat /\ UNCHANGED <<now, expires, claims>>
          /\ end \in Ends => end > now
          /\ ask' = [ask EXCEPT ![c] = [end |-> end, ttl |-> Life(end)]]
      BY <2>2 DEF Decide, IInv, TypeOK
    <3>2. /\ Life(end) \in Ttl
          /\ end \in Ends => /\ Life(end) # Forever /\ Life(end) >= MinTtl
                             /\ now + Life(end) > end - SEC
          /\ end = NoEnd <=> Life(end) = Forever
      BY <3>1, LifeLongEnough
    <3>3. TypeOK'
      BY <3>1, <3>2 DEF IInv, TypeOK
    <3>4. AskOK'
      BY <3>1, <3>2 DEF IInv, AskOK, TypeOK
    <3> QED
      BY <3>1, <3>3, <3>4 DEF IInv, KeyOutlives, ReclaimedOnlyAtEnd, ClaimsApart
  <2>3. CASE UNCHANGED vars
    BY <2>3 DEF vars, IInv, TypeOK, AskOK, KeyOutlives, ReclaimedOnlyAtEnd, ClaimsApart
  <2> QED
    BY <2>1, <2>2, <2>3, SetStep DEF Next
<1> QED
  BY <1>1, <1>2, PTL DEF Spec

(* A later claim waits for the last second before the end the earlier one  *)
(* carried.                                                                *)
THEOREM ReclaimTheorem == Spec => []ReclaimedOnlyAtEnd
BY Invariant, PTL DEF IInv

(* Claims are at least the shortest life apart.                            *)
THEOREM ApartTheorem == Spec => []ClaimsApart
BY Invariant, PTL DEF IInv

(* An announcement with one end is claimed at most twice before it.        *)
THEOREM TwiceTheorem == Spec => []TwiceBeforeEnd
<1>1. IInv => TwiceBeforeEnd
  <2> SUFFICES ASSUME IInv, NEW end \in Ends, NEW k \in 3 .. Len(claims),
                      \A i \in 1 .. Len(claims) : claims[i].end = end
               PROVE  claims[k].at >= end
    BY DEF TwiceBeforeEnd
  <2>1. claims \in Seq(Claim) /\ Len(claims) \in Nat
    BY DEF IInv, TypeOK
  <2>2. 1 \in 1 .. Len(claims) /\ 2 \in 1 .. Len(claims) /\ k \in 1 .. Len(claims)
    BY <2>1
  <2>3. claims[2].at \in Nat /\ claims[k].at \in Nat /\ end \in Nat
    BY <2>2, ClaimTyped, TimeAssumption DEF IInv
  <2>4. claims[2].at > end - SEC
    BY <2>2 DEF IInv, ReclaimedOnlyAtEnd
  <2>5. claims[k].at >= claims[2].at + MinTtl
    BY <2>1, <2>2 DEF IInv, ClaimsApart
  <2> QED
    BY <2>3, <2>4, <2>5, TimeAssumption
<1> QED
  BY <1>1, Invariant, PTL
=============================================================================

------------------------------- MODULE Dedup --------------------------------
(***************************************************************************)
(* The duplicate key of one announcement against the clock: check_duplicate*)
(* of apps/mas01_incident/tools.py reads the time, works out how long the  *)
(* key is to live, and only then sends SET NX EX, which Redis executes     *)
(* some time later.  Deliveries of the same text may carry different ends, *)
(* since the text alone makes the key.  Time is counted in ticks, SEC of   *)
(* them to a second, because the code truncates the life to whole seconds. *)
(***************************************************************************)
EXTENDS Integers, Sequences

CONSTANTS
    SEC,        \* ticks in a second
    MinTtl,     \* the shortest life of a key with an end, in ticks (600 s)
    BadEndTtl,  \* its life when the end does not parse, in ticks (3600 s)
    Ends,       \* the ends deliveries carry, as ticks
    NoEnd,      \* a delivery without an end
    BadEnd,     \* one whose end does not parse
    Caller,     \* the tasks that call check_duplicate
    Horizon     \* bound: the last tick

ASSUME TimeAssumption ==
    /\ SEC \in Nat \ {0} /\ MinTtl \in Nat /\ MinTtl >= SEC
    /\ BadEndTtl \in Nat \ {0} /\ Horizon \in Nat
    /\ Ends \subseteq Nat /\ NoEnd \notin Nat /\ BadEnd \notin Nat /\ NoEnd # BadEnd

Forever == -1
NoKey   == -2
End     == Ends \cup {NoEnd, BadEnd}
Ttl     == (Nat \ {0}) \cup {Forever}

VARIABLES
    now,      \* the clock
    expires,  \* the tick at which the key goes, Forever, or NoKey
    ask,      \* what each caller has decided to send: [end, ttl], or None
    claims    \* history: the claims Redis granted, [at, end], in order

vars == <<now, expires, ask, claims>>

None  == [end |-> NoEnd, ttl |-> 0]
Claim == [at : Nat, end : End]

Init == now = 0 /\ expires = NoKey /\ ask = [c \in Caller |-> None] /\ claims = <<>>

MUT_OneSecondShort(left) == left - (left % SEC) - SEC

(* int(): the whole seconds in the time left.                              *)
WholeSeconds(left) == left - (left % SEC)

MUT_NoFloor(end) ==
    IF end = NoEnd THEN Forever
    ELSE IF end = BadEnd THEN BadEndTtl
    ELSE WholeSeconds(end - now)

(* The life the key is given at this tick.                                 *)
Life(end) ==
    IF end = NoEnd THEN Forever
    ELSE IF end = BadEnd THEN BadEndTtl
    ELSE IF WholeSeconds(end - now) > MinTtl THEN WholeSeconds(end - now) ELSE MinTtl

(* An announcement whose end is past is a duplicate at once, key or none.  *)
Decide(c, end) ==
    /\ ask[c] = None
    /\ end \in Ends => end > now
    /\ ask' = [ask EXCEPT ![c] = [end |-> end, ttl |-> Life(end)]]
    /\ UNCHANGED <<now, expires, claims>>

Gone == expires = NoKey \/ (expires # Forever /\ expires <= now)

MUT_SetWithoutNX(c) ==
    /\ ask[c] # None
    /\ expires' = IF ask[c].ttl = Forever THEN Forever ELSE now + ask[c].ttl
    /\ claims' = Append(claims, [at |-> now, end |-> ask[c].end])
    /\ ask' = [ask EXCEPT ![c] = None]
    /\ UNCHANGED now

(* Redis executes the SET: only an absent key is set, and given its life.  *)
Set(c) ==
    /\ ask[c] # None
    /\ IF Gone
       THEN /\ expires' = IF ask[c].ttl = Forever THEN Forever ELSE now + ask[c].ttl
            /\ claims' = Append(claims, [at |-> now, end |-> ask[c].end])
       ELSE UNCHANGED <<expires, claims>>
    /\ ask' = [ask EXCEPT ![c] = None]
    /\ UNCHANGED now

Tick == now < Horizon /\ now' = now + 1 /\ UNCHANGED <<expires, ask, claims>>

Next == Tick \/ \E c \in Caller : Set(c) \/ \E end \in End : Decide(c, end)

Spec == Init /\ [][Next]_vars

-----------------------------------------------------------------------------
TypeOK ==
    /\ now \in Nat
    /\ expires \in Nat \cup {Forever, NoKey}
    /\ ask \in [Caller -> [end : End, ttl : Ttl \cup {0}]]
    /\ claims \in Seq(Claim)

(* A later claim waits for the last second before the end the earlier one  *)
(* carried: truncation costs at most that second (tools.py 66-70).         *)
ReclaimedOnlyAtEnd ==
    \A j, k \in 1 .. Len(claims) :
        j < k /\ claims[j].end \in Ends => claims[k].at > claims[j].end - SEC

(* Two claims are at least the shortest life apart (tools.py 70, "at least *)
(* ten minutes are guaranteed"), and a claim without an end is the last.   *)
ClaimsApart ==
    \A j, k \in 1 .. Len(claims) :
        j < k => /\ claims[j].end \in Ends => claims[k].at >= claims[j].at + MinTtl
                 /\ claims[j].end # NoEnd

(* When every delivery carries the same end, an announcement is claimed at *)
(* most twice before it: once, and once more in the last second.           *)
TwiceBeforeEnd ==
    \A end \in Ends :
        (\A k \in 1 .. Len(claims) : claims[k].end = end) =>
            \A k \in 3 .. Len(claims) : claims[k].at >= end

-----------------------------------------------------------------------------
(* The inductive invariant: what a decision that is under way promises,    *)
(* and what the key keeps for the sake of the claims made so far.          *)
AskOK ==
    \A c \in Caller : ask[c] # None =>
        /\ ask[c].end \in Ends =>
              ask[c].ttl # Forever /\ ask[c].ttl >= MinTtl /\ now + ask[c].ttl > ask[c].end - SEC
        /\ ask[c].end = NoEnd <=> ask[c].ttl = Forever

KeyOutlives ==
    \A k \in 1 .. Len(claims) :
        /\ claims[k].at <= now
        /\ claims[k].end = NoEnd => expires = Forever
        /\ claims[k].end \in Ends /\ expires # Forever =>
              expires > claims[k].end - SEC /\ expires >= claims[k].at + MinTtl
        /\ expires # NoKey

IInv == TypeOK /\ AskOK /\ KeyOutlives /\ ReclaimedOnlyAtEnd /\ ClaimsApart
=============================================================================

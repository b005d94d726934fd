------------------------- MODULE AdmissionProofs --------------------------
(*************************************************************************)
(* The books of the admission, for any number of requests, replicas and  *)
(* queue sizes, whatever expires, crashes or is deleted: a prompt is     *)
(* queued, kept as a promoted steer or in the hands of a drain, once,    *)
(* and its fate says so (BooksSafety); hence what happens to a request   *)
(* is what the lifecycle allows (LifecycleRefinement).                   *)
(*                                                                       *)
(* First the queues: what each operation of InputAdmission.tla does to   *)
(* the prompts it holds. Then the books of one session, as a predicate   *)
(* of the admission, the places of the processes, what they hold and the *)
(* fates, with one lemma per change. Then the steps of SessionTurns.tla. *)
(*************************************************************************)
EXTENDS SessionTurns, SublistProofs, SequenceTheorems, TLAPS

-----------------------------------------------------------------------------
(* The queues.  A prompt is in the follow-ups or among the promoted steers  *)
(* at most once, whatever the operators of the admission do to them.        *)

\* The prompts of a queue, and that each is in it once.
Ids(s) == {s[i].rid : i \in DOMAIN s}
Once(s) == \A i, j \in DOMAIN s : s[i].rid = s[j].rid => i = j

\* The same of a list of steers; a plain steer has no prompt.
Sources(s) == {s[i].queued : i \in DOMAIN s} \ {NoReq}
OnceFrom(s) ==
    \A i, j \in DOMAIN s : s[i].queued = s[j].queued => i = j \/ s[i].queued = NoReq

\* The prompts that wait in the follow-up queue are requests.
LEMMA IdsAreRequests ==
    ASSUME NEW s \in Seq(FollowUpItem)
    PROVE  Ids(s) \subseteq Requests
<1>1. \A i \in DOMAIN s : s[i] \in FollowUpItem
  OBVIOUS
<1> QED BY <1>1 DEF Ids, FollowUpItem

\* So are those the queued steers came from.
LEMMA SourcesAreRequests ==
    ASSUME NEW s \in Seq(SteerItem)
    PROVE  Sources(s) \subseteq Requests
<1>1. \A i \in DOMAIN s : s[i] \in SteerItem
  OBVIOUS
<1> QED BY <1>1 DEF Sources, SteerItem

\* A prompt that is not in a queue joins it at the end or at the front.
LEMMA JoinEnd ==
    ASSUME NEW s \in Seq(FollowUpItem), NEW x \in FollowUpItem, Once(s), x.rid \notin Ids(s)
    PROVE  /\ Append(s, x) \in Seq(FollowUpItem)
           /\ Once(Append(s, x)) /\ Ids(Append(s, x)) = Ids(s) \cup {x.rid}
<1> HIDE DEF FollowUpItem
<1>1. /\ Append(s, x) \in Seq(FollowUpItem) /\ Len(Append(s, x)) = Len(s) + 1 /\ Len(s) \in Nat
      /\ \A i \in 1..Len(s) : Append(s, x)[i] = s[i]
      /\ Append(s, x)[Len(s) + 1] = x
  OBVIOUS
<1>2. DOMAIN Append(s, x) = 1..(Len(s) + 1) /\ DOMAIN s = 1..Len(s)
  BY <1>1
<1>3. \A i \in 1..(Len(s) + 1) : i \in 1..Len(s) \/ i = Len(s) + 1
  BY <1>1
<1>4. Len(s) + 1 \in 1..(Len(s) + 1) /\ 1..Len(s) \subseteq 1..(Len(s) + 1)
  BY <1>1
<1>5. Ids(Append(s, x)) = Ids(s) \cup {x.rid}
  BY <1>1, <1>2, <1>3, <1>4 DEF Ids
<1>6. Once(Append(s, x))
  BY <1>1, <1>2, <1>3 DEF Once, Ids
<1> QED BY <1>1, <1>5, <1>6

\* Two queues that share no prompt, one after the other.
LEMMA JoinQueues ==
    ASSUME NEW s \in Seq(FollowUpItem), NEW t \in Seq(FollowUpItem),
           Once(s), Once(t), Ids(s) \cap Ids(t) = {}
    PROVE  s \o t \in Seq(FollowUpItem) /\ Once(s \o t) /\ Ids(s \o t) = Ids(s) \cup Ids(t)
<1> HIDE DEF FollowUpItem
<1> DEFINE u == s \o t
           m == Len(s)
           n == Len(t)
<1>1. /\ u \in Seq(FollowUpItem) /\ m \in Nat /\ n \in Nat
      /\ DOMAIN s = 1..m /\ DOMAIN t = 1..n /\ DOMAIN u = 1..(m + n)
      /\ \A i \in 1..(m + n) : u[i] = IF i <= m THEN s[i] ELSE t[i - m]
  BY ConcatProperties
<1> HIDE DEF u, m, n
<1>2. \A i \in DOMAIN u : \/ i \in DOMAIN s /\ i <= m /\ u[i] = s[i]
                          \/ i - m \in DOMAIN t /\ ~(i <= m) /\ u[i] = t[i - m]
  BY <1>1
<1>3. \A i \in DOMAIN s : i \in DOMAIN u /\ u[i] = s[i]
  BY <1>1
<1>4. \A i \in DOMAIN t : m + i \in DOMAIN u /\ u[m + i] = t[i]
  <2> SUFFICES ASSUME NEW i \in 1..n PROVE m + i \in 1..(m + n) /\ u[m + i] = t[i]
    BY <1>1
  <2>1. m + i \in 1..(m + n) /\ ~(m + i <= m) /\ (m + i) - m = i
    BY <1>1
  <2> QED BY <1>1, <2>1
<1>5. Ids(u) = Ids(s) \cup Ids(t)
  <2>1. \A i \in DOMAIN u : u[i].rid \in Ids(s) \cup Ids(t)
    BY <1>2 DEF Ids
  <2>2. \A i \in DOMAIN s : s[i].rid \in Ids(u)
    BY <1>3 DEF Ids
  <2>3. \A i \in DOMAIN t : t[i].rid \in Ids(u)
    BY <1>4 DEF Ids
  <2> QED BY <2>1, <2>2, <2>3 DEF Ids
<1>6. Once(u)
  <2> SUFFICES ASSUME NEW i \in DOMAIN u, NEW j \in DOMAIN u, u[i].rid = u[j].rid PROVE i = j
    BY DEF Once
  <2>1. CASE i <= m /\ j <= m
    BY <1>2, <2>1 DEF Once
  <2>2. CASE ~(i <= m) /\ ~(j <= m)
    <3>1. i - m = j - m
      BY <1>2, <2>2 DEF Once
    <3> QED BY <3>1, <1>1
  <2>3. \A k \in DOMAIN s, l \in DOMAIN t : s[k].rid # t[l].rid
    <3>1. \A k \in DOMAIN s : s[k].rid \in Ids(s)
      BY DEF Ids
    <3>2. \A l \in DOMAIN t : t[l].rid \in Ids(t)
      BY DEF Ids
    <3> QED BY <3>1, <3>2
  <2>4. CASE i <= m /\ ~(j <= m)
    BY <1>2, <2>3, <2>4
  <2>5. CASE ~(i <= m) /\ j <= m
    BY <1>2, <2>3, <2>5
  <2> QED BY <2>1, <2>2, <2>4, <2>5
<1> QED BY <1>1, <1>5, <1>6 DEF u

\* Or at the front.
LEMMA JoinFront ==
    ASSUME NEW s \in Seq(FollowUpItem), NEW x \in FollowUpItem, Once(s), x.rid \notin Ids(s)
    PROVE  /\ <<x>> \o s \in Seq(FollowUpItem)
           /\ Once(<<x>> \o s) /\ Ids(<<x>> \o s) = Ids(s) \cup {x.rid}
<1> DEFINE one == <<x>>
<1>1. one \in Seq(FollowUpItem) /\ DOMAIN one = {1} /\ one[1] = x
  OBVIOUS
<1> HIDE DEF one
<1>2. Once(one) /\ Ids(one) = {x.rid}
  BY <1>1 DEF Once, Ids
<1>3. one \o s \in Seq(FollowUpItem) /\ Once(one \o s) /\ Ids(one \o s) = Ids(one) \cup Ids(s)
  BY <1>1, <1>2, JoinQueues
<1> QED BY <1>2, <1>3 DEF one

\* The oldest prompt leaves.
LEMMA LeaveFront ==
    ASSUME NEW s \in Seq(FollowUpItem), Once(s), s # <<>>
    PROVE  /\ Head(s) \in FollowUpItem /\ Tail(s) \in Seq(FollowUpItem)
           /\ Once(Tail(s)) /\ Ids(Tail(s)) = Ids(s) \ {Head(s).rid} /\ Head(s).rid \in Ids(s)
<1> HIDE DEF FollowUpItem
<1>1. /\ Len(s) \in Nat /\ Len(s) > 0 /\ DOMAIN s = 1..Len(s) /\ Head(s) = s[1] /\ Head(s) \in FollowUpItem
      /\ Tail(s) \in Seq(FollowUpItem) /\ Len(Tail(s)) = Len(s) - 1 /\ DOMAIN Tail(s) = 1..(Len(s) - 1)
      /\ \A i \in 1..(Len(s) - 1) : Tail(s)[i] = s[i + 1]
  OBVIOUS
<1>2. \A i \in 1..(Len(s) - 1) : i + 1 \in 1..Len(s) /\ i + 1 # 1
  BY <1>1
<1>3. \A i \in 1..Len(s) : i # 1 => i - 1 \in 1..(Len(s) - 1) /\ Tail(s)[i - 1] = s[i]
  BY <1>1
<1>4. 1 \in 1..Len(s)
  BY <1>1
<1>5. Once(Tail(s))
  <2> SUFFICES ASSUME NEW i \in 1..(Len(s) - 1), NEW j \in 1..(Len(s) - 1), Tail(s)[i].rid = Tail(s)[j].rid
               PROVE  i = j
    BY <1>1 DEF Once
  <2>1. i + 1 = j + 1
    BY <1>1, <1>2 DEF Once
  <2> QED BY <2>1, <1>1
<1>6. Ids(Tail(s)) \subseteq Ids(s) \ {Head(s).rid}
  BY <1>1, <1>2, <1>4 DEF Ids, Once
<1>7. Ids(s) \ {Head(s).rid} \subseteq Ids(Tail(s))
  <2> SUFFICES ASSUME NEW i \in DOMAIN s, s[i].rid # Head(s).rid PROVE s[i].rid \in Ids(Tail(s))
    BY DEF Ids
  <2>1. i - 1 \in DOMAIN Tail(s) /\ Tail(s)[i - 1] = s[i]
    BY <1>1, <1>3
  <2> QED BY <2>1 DEF Ids
<1> QED BY <1>1, <1>4, <1>5, <1>6, <1>7 DEF Ids
\* A prompt leaves from where it stands (_follow_up_index).
LEMMA LeaveAt ==
    ASSUME NEW s \in Seq(FollowUpItem), Once(s), NEW k \in DOMAIN s
    PROVE  LET t == SubSeq(s, 1, k - 1) \o SubSeq(s, k + 1, Len(s))
           IN  t \in Seq(FollowUpItem) /\ Once(t) /\ Ids(t) = Ids(s) \ {s[k].rid}
<1> HIDE DEF FollowUpItem
<1> DEFINE l == SubSeq(s, 1, k - 1)
           u == SubSeq(s, k + 1, Len(s))
           t == l \o u
<1>1. Len(s) \in Nat /\ DOMAIN s = 1..Len(s) /\ k \in 1..Len(s)
  OBVIOUS
<1>2. /\ l \in Seq(FollowUpItem) /\ Len(l) = k - 1
      /\ \A i \in 1..(k - 1) : l[i] = s[i]
  <2>1. \A i \in 1..(k - 1) : s[i] \in FollowUpItem
    BY <1>1
  <2> QED BY <1>1, <2>1, SubSeqProperties
<1>3. /\ u \in Seq(FollowUpItem) /\ Len(u) = Len(s) - k
      /\ \A i \in 1..(Len(s) - k) : u[i] = s[k + i]
  <2>1. \A i \in (k + 1)..Len(s) : s[i] \in FollowUpItem
    BY <1>1
  <2>2. /\ SubSeq(s, k + 1, Len(s)) \in Seq(FollowUpItem)
        /\ Len(SubSeq(s, k + 1, Len(s))) = IF k + 1 <= Len(s) THEN Len(s) - (k + 1) + 1 ELSE 0
        /\ \A i \in 1..(Len(s) - (k + 1) + 1) : SubSeq(s, k + 1, Len(s))[i] = s[(k + 1) + i - 1]
    BY <1>1, <2>1, SubSeqProperties
  <2>3. Len(s) - (k + 1) + 1 = Len(s) - k /\ (~(k + 1 <= Len(s)) => Len(s) - k = 0)
    BY <1>1
  <2>4. \A i \in 1..(Len(s) - k) : (k + 1) + i - 1 = k + i
    BY <1>1
  <2> QED BY <2>2, <2>3, <2>4
<1> HIDE DEF l, u
<1>4. /\ t \in Seq(FollowUpItem) /\ Len(t) = Len(s) - 1
      /\ \A i \in 1..(Len(s) - 1) : t[i] = IF i <= k - 1 THEN l[i] ELSE u[i - (k - 1)]
  <2>1. /\ l \o u \in Seq(FollowUpItem) /\ Len(l \o u) = Len(l) + Len(u)
        /\ \A i \in 1..(Len(l) + Len(u)) : (l \o u)[i] = IF i <= Len(l) THEN l[i] ELSE u[i - Len(l)]
    BY <1>2, <1>3, ConcatProperties
  <2>2. Len(l) + Len(u) = Len(s) - 1
    BY <1>1, <1>2, <1>3
  <2> QED BY <2>1, <2>2, <1>2
<1> HIDE DEF t
<1>5. DOMAIN t = 1..(Len(s) - 1)
  BY <1>4
<1>6. \A i \in 1..(Len(s) - 1) : t[i] = IF i < k THEN s[i] ELSE s[i + 1]
  <2> SUFFICES ASSUME NEW i \in 1..(Len(s) - 1) PROVE t[i] = IF i < k THEN s[i] ELSE s[i + 1]
    OBVIOUS
  <2>1. CASE i < k
    <3>1. i <= k - 1 /\ i \in 1..(k - 1)
      BY <1>1, <2>1
    <3> QED BY <3>1, <2>1, <1>2, <1>4
  <2>2. CASE ~(i < k)
    <3>1. ~(i <= k - 1) /\ i - (k - 1) \in 1..(Len(s) - k) /\ k + (i - (k - 1)) = i + 1
      BY <1>1, <2>2
    <3> QED BY <3>1, <2>2, <1>3, <1>4
  <2> QED BY <2>1, <2>2
<1> DEFINE at == [i \in 1..(Len(s) - 1) |-> IF i < k THEN i ELSE i + 1]
<1>7. \A i \in 1..(Len(s) - 1) : t[i] = s[at[i]] /\ at[i] \in 1..Len(s) /\ at[i] # k
  BY <1>1, <1>6
<1>8. \A i, j \in 1..(Len(s) - 1) : at[i] = at[j] => i = j
  BY <1>1
<1>9. \A j \in 1..Len(s) : j # k => \E i \in 1..(Len(s) - 1) : at[i] = j
  <2> SUFFICES ASSUME NEW j \in 1..Len(s), j # k PROVE \E i \in 1..(Len(s) - 1) : at[i] = j
    OBVIOUS
  <2>1. CASE j < k
    <3>1. j \in 1..(Len(s) - 1) /\ at[j] = j
      BY <1>1, <2>1
    <3> QED BY <3>1
  <2>2. CASE ~(j < k)
    <3>1. j - 1 \in 1..(Len(s) - 1) /\ at[j - 1] = j
      BY <1>1, <2>2
    <3> QED BY <3>1
  <2> QED BY <2>1, <2>2
<1> HIDE DEF at
<1>10. Once(t)
  <2> SUFFICES ASSUME NEW i \in 1..(Len(s) - 1), NEW j \in 1..(Len(s) - 1), t[i].rid = t[j].rid PROVE i = j
    BY <1>5 DEF Once
  <2>1. at[i] = at[j]
    BY <1>1, <1>7 DEF Once
  <2> QED BY <2>1, <1>8
<1>11. Ids(t) = Ids(s) \ {s[k].rid}
  <2>1. \A i \in DOMAIN t : t[i].rid \in Ids(s) \ {s[k].rid}
    BY <1>1, <1>5, <1>7 DEF Ids, Once
  <2>2. \A j \in DOMAIN s : s[j].rid # s[k].rid => s[j].rid \in Ids(t)
    <3> SUFFICES ASSUME NEW j \in 1..Len(s), s[j].rid # s[k].rid PROVE s[j].rid \in Ids(t)
      BY <1>1
    <3>1. PICK i \in 1..(Len(s) - 1) : at[i] = j
      BY <1>9
    <3> QED BY <3>1, <1>5, <1>7 DEF Ids
  <2> QED BY <2>1, <2>2 DEF Ids
<1> QED BY <1>4, <1>10, <1>11 DEF t, l, u

\* A steer joins, plain or of a prompt that is in no other one; the oldest leaves.
LEMMA SteerJoins ==
    ASSUME NEW s \in Seq(SteerItem), NEW x \in SteerItem, OnceFrom(s), x.queued \notin Sources(s)
    PROVE  /\ Append(s, x) \in Seq(SteerItem)
           /\ OnceFrom(Append(s, x)) /\ Sources(Append(s, x)) = Sources(s) \cup ({x.queued} \ {NoReq})
<1> HIDE DEF SteerItem
<1>1. /\ Append(s, x) \in Seq(SteerItem) /\ Len(Append(s, x)) = Len(s) + 1 /\ Len(s) \in Nat
      /\ \A i \in 1..Len(s) : Append(s, x)[i] = s[i]
      /\ Append(s, x)[Len(s) + 1] = x
  OBVIOUS
<1>2. DOMAIN Append(s, x) = 1..(Len(s) + 1) /\ DOMAIN s = 1..Len(s)
  BY <1>1
<1>3. \A i \in 1..(Len(s) + 1) : i \in 1..Len(s) \/ i = Len(s) + 1
  BY <1>1
<1>4. Len(s) + 1 \in 1..(Len(s) + 1) /\ 1..Len(s) \subseteq 1..(Len(s) + 1)
  BY <1>1
<1>5. Sources(Append(s, x)) = Sources(s) \cup ({x.queued} \ {NoReq})
  BY <1>1, <1>2, <1>3, <1>4 DEF Sources
<1>6. OnceFrom(Append(s, x))
  BY <1>1, <1>2, <1>3 DEF OnceFrom, Sources
<1> QED BY <1>1, <1>5, <1>6

\* The first steer leaves the queue with the prompt it came from.
LEMMA SteerLeaves ==
    ASSUME NEW s \in Seq(SteerItem), OnceFrom(s), s # <<>>
    PROVE  /\ Head(s) \in SteerItem /\ Tail(s) \in Seq(SteerItem) /\ OnceFrom(Tail(s))
           /\ Sources(Tail(s)) = Sources(s) \ {Head(s).queued}
           /\ Head(s).queued \in Sources(s) \cup {NoReq}
<1> HIDE DEF SteerItem
<1>1. /\ Len(s) \in Nat /\ Len(s) > 0 /\ DOMAIN s = 1..Len(s) /\ Head(s) = s[1] /\ Head(s) \in SteerItem
      /\ Tail(s) \in Seq(SteerItem) /\ Len(Tail(s)) = Len(s) - 1 /\ DOMAIN Tail(s) = 1..(Len(s) - 1)
      /\ \A i \in 1..(Len(s) - 1) : Tail(s)[i] = s[i + 1]
  OBVIOUS
<1>2. \A i \in 1..(Len(s) - 1) : i + 1 \in 1..Len(s) /\ i + 1 # 1
  BY <1>1
<1>3. \A i \in 1..Len(s) : i # 1 => i - 1 \in 1..(Len(s) - 1) /\ Tail(s)[i - 1] = s[i]
  BY <1>1
<1>4. 1 \in 1..Len(s)
  BY <1>1
<1>5. OnceFrom(Tail(s))
  <2> SUFFICES ASSUME NEW i \in 1..(Len(s) - 1), NEW j \in 1..(Len(s) - 1),
                      Tail(s)[i].queued = Tail(s)[j].queued, Tail(s)[i].queued # NoReq
               PROVE  i = j
    BY <1>1 DEF OnceFrom
  <2>1. i + 1 = j + 1
    BY <1>1, <1>2 DEF OnceFrom
  <2> QED BY <2>1, <1>1
<1>6. Sources(Tail(s)) \subseteq Sources(s) \ {Head(s).queued}
  BY <1>1, <1>2, <1>4 DEF Sources, OnceFrom
<1>7. Sources(s) \ {Head(s).queued} \subseteq Sources(Tail(s))
  <2> SUFFICES ASSUME NEW i \in DOMAIN s, s[i].queued # Head(s).queued, s[i].queued # NoReq
               PROVE  s[i].queued \in Sources(Tail(s))
    BY DEF Sources
  <2>1. i - 1 \in DOMAIN Tail(s) /\ Tail(s)[i - 1] = s[i]
    BY <1>1, <1>3
  <2> QED BY <2>1 DEF Sources
<1> QED BY <1>1, <1>4, <1>5, <1>6, <1>7 DEF Sources

\* Promoted steers become prompts of the queue again, each once, and the plain
\* ones stay.
LEMMA SteersGoBack ==
    ASSUME NEW s \in Seq(SteerItem), OnceFrom(s)
    PROVE  LET promoted == {i \in DOMAIN s : s[i].queued # NoReq}
               back     == Sublist(s, promoted)
               fresh    == [i \in DOMAIN back |-> NewFollowUp(back[i].queued, "human")]
               plain    == Sublist(s, DOMAIN s \ promoted)
           IN  /\ fresh \in Seq(FollowUpItem) /\ Once(fresh) /\ Ids(fresh) = Sources(s)
               /\ plain \in Seq(SteerItem) /\ OnceFrom(plain) /\ Sources(plain) = {}
<1> DEFINE promoted == {i \in DOMAIN s : s[i].queued # NoReq}
           back     == Sublist(s, promoted)
           fresh    == [i \in DOMAIN back |-> NewFollowUp(back[i].queued, "human")]
           plain    == Sublist(s, DOMAIN s \ promoted)
<1>1. promoted \in SUBSET DOMAIN s /\ DOMAIN s \ promoted \in SUBSET DOMAIN s
  OBVIOUS
<1>2. /\ back \in Seq(SteerItem) /\ DOMAIN back = 1..Cardinality(promoted)
      /\ plain \in Seq(SteerItem) /\ Cardinality(promoted) \in Nat
  BY <1>1, SublistType, Positions
<1>3. /\ \A k \in DOMAIN back : Place(promoted, k) \in promoted /\ back[k] = s[Place(promoted, k)]
      /\ \A i \in promoted : \E k \in DOMAIN back : back[k] = s[i]
  BY <1>1, SublistElements
<1>4. \A k \in DOMAIN plain : Place(DOMAIN s \ promoted, k) \in DOMAIN s \ promoted
                           /\ plain[k] = s[Place(DOMAIN s \ promoted, k)]
  BY <1>1, SublistElements
<1>5. \A k, l \in DOMAIN back : Place(promoted, k) = Place(promoted, l) => k = l
  <2> SUFFICES ASSUME NEW k \in DOMAIN back, NEW l \in DOMAIN back, k # l
               PROVE  Place(promoted, k) # Place(promoted, l)
    OBVIOUS
  <2>1. k < l => Place(promoted, k) < Place(promoted, l)
    BY <1>1, SublistOrder
  <2>2. l < k => Place(promoted, l) < Place(promoted, k)
    BY <1>1, SublistOrder
  <2>a. promoted \subseteq Nat
    BY <1>1, Positions
  <2>3. k \in Nat /\ l \in Nat /\ Place(promoted, k) \in Nat /\ Place(promoted, l) \in Nat
    <3>1. k \in 1..Cardinality(promoted) /\ l \in 1..Cardinality(promoted)
      BY <1>2
    <3> QED BY <3>1, <2>a, <1>3
  <2> QED BY <2>1, <2>2, <2>3
<1> HIDE DEF back, plain
<1>6. \A i \in promoted : s[i].queued \in Requests
  <2>1. \A i \in DOMAIN s : s[i] \in SteerItem
    OBVIOUS
  <2> QED BY <2>1 DEF SteerItem
<1>7. \A k \in DOMAIN back : /\ back[k].queued \in Requests
                            /\ NewFollowUp(back[k].queued, "human") \in FollowUpItem
                            /\ NewFollowUp(back[k].queued, "human").rid = back[k].queued
  BY <1>3, <1>6 DEF NewFollowUp, FollowUpItem, Provenance
<1> HIDE DEF promoted
<1>8. DOMAIN fresh = DOMAIN back /\ \A k \in DOMAIN back : fresh[k] \in FollowUpItem /\ fresh[k].rid = back[k].queued
  BY <1>7
<1>9. fresh \in Seq(FollowUpItem)
  <2>1. fresh \in [1..Cardinality(promoted) -> FollowUpItem]
    BY <1>2, <1>7
  <2> HIDE DEF fresh
  <2> QED BY <1>2, <2>1
<1> HIDE DEF fresh
<1>10. Once(fresh)
  <2> SUFFICES ASSUME NEW k \in DOMAIN back, NEW l \in DOMAIN back, fresh[k].rid = fresh[l].rid PROVE k = l
    BY <1>8 DEF Once
  <2>1. Place(promoted, k) \in DOMAIN s /\ Place(promoted, l) \in DOMAIN s
    BY <1>1, <1>3
  <2>2. s[Place(promoted, k)].queued = s[Place(promoted, l)].queued /\ s[Place(promoted, k)].queued # NoReq
    BY <1>3, <1>7, <1>8, NoReqAssumption
  <2> QED BY <2>1, <2>2, <1>5 DEF OnceFrom
<1>11. Ids(fresh) = Sources(s)
  <2>1. \A k \in DOMAIN back : fresh[k].rid \in Sources(s)
    <3> SUFFICES ASSUME NEW k \in DOMAIN back PROVE back[k].queued \in Sources(s)
      BY <1>8
    <3>1. Place(promoted, k) \in DOMAIN s /\ back[k].queued = s[Place(promoted, k)].queued
      BY <1>1, <1>3
    <3> QED BY <3>1, <1>7, NoReqAssumption DEF Sources
  <2>2. \A i \in promoted : s[i].queued \in Ids(fresh)
    <3> SUFFICES ASSUME NEW i \in promoted PROVE s[i].queued \in Ids(fresh)
      OBVIOUS
    <3>1. PICK k \in DOMAIN back : back[k] = s[i]
      BY <1>3
    <3>2. k \in DOMAIN fresh /\ fresh[k].rid = s[i].queued
      BY <3>1, <1>8
    <3> QED BY <3>2 DEF Ids
  <2> QED BY <1>8, <2>1, <2>2 DEF Ids, Sources, promoted
<1>12. \A k \in DOMAIN plain : plain[k].queued = NoReq
  BY <1>4 DEF promoted
<1>13. OnceFrom(plain) /\ Sources(plain) = {}
  BY <1>12 DEF OnceFrom, Sources
<1> QED BY <1>2, <1>9, <1>10, <1>11, <1>13 DEF fresh, back, plain, promoted

-----------------------------------------------------------------------------
(* The books.  A prompt is in the queue, among the promoted steers or in    *)
(* the hands of a drain, and once; it is accepted there, and it waits for   *)
(* its turn, until a drain starts it.  A prompt that is deleted in the      *)
(* hands of a drain is marked for it.  Once the session is detached nobody  *)
(* asks for its books any more.                                             *)

InHand   == {"drainAcq", "drainGot", "drainDenied"}
Draining == InHand \cup {"drainDrop", "drainDropDone"}
Rests    == {"idle", "queued"}

Booked(a) == Ids(a.followUp) \cup Sources(a.steer) \cup a.draining

\* Each prompt is booked once.
BookedOnce(a) ==
    /\ Once(a.followUp) /\ OnceFrom(a.steer)
    /\ Ids(a.followUp) \cap Sources(a.steer) = {}
    /\ Ids(a.followUp) \cap a.draining = {} /\ Sources(a.steer) \cap a.draining = {}

\* What is booked waits, and so does what is scheduled wait for its start.
Fated(a, pcs, f) ==
    /\ \A r \in Booked(a) : pcs[r] \in Rests /\ f[r] = IF r \in a.dropped THEN "deleted" ELSE "accepted"
    /\ \A r \in Requests : pcs[r] = "sched" => f[r] = "accepted"

\* Each prompt in the hands of a drain is in the hands of one.
Hands(a, pcs, its) ==
    /\ \A p \in Procs : pcs[p] \in InHand => its[p].rid \in a.draining
    /\ \A p, q \in Procs : pcs[p] \in InHand /\ pcs[q] \in InHand /\ its[p].rid = its[q].rid => p = q

Shapes(a, pcs, its) ==
    /\ a \in Admission /\ a.dropped \subseteq a.draining /\ (~registered => a.steer = <<>>)
    /\ pcs \in [Procs -> Places] /\ its \in [Procs -> FollowUpItem \cup {NoItem}]
    /\ \A p \in Procs : pcs[p] \in Draining => its[p] \in FollowUpItem

Books(a, pcs, its, f) == BookedOnce(a) /\ Fated(a, pcs, f) /\ Hands(a, pcs, its)

Sound(a, pcs, its, f) == Shapes(a, pcs, its) /\ (registered => Books(a, pcs, its, f))

\* The fields of an admission.
LEMMA AdmissionFields ==
    ASSUME NEW a \in Admission
    PROVE  /\ a.steer \in Seq(SteerItem) /\ a.followUp \in Seq(FollowUpItem)
           /\ a.draining \in SUBSET Requests /\ a.dropped \in SUBSET Requests
<1> HIDE DEF SteerItem, FollowUpItem
<1> QED BY DEF Admission

\* What each assignment to a field of the admission makes of it.
LEMMA AdmissionOf ==
    ASSUME NEW a \in Admission, NEW st \in Seq(SteerItem), NEW fu \in Seq(FollowUpItem),
           NEW dr \in SUBSET Requests, NEW dp \in SUBSET Requests
    PROVE  /\ [a EXCEPT !.steer = st] =
                  [steer |-> st, followUp |-> a.followUp, draining |-> a.draining, dropped |-> a.dropped]
           /\ [a EXCEPT !.followUp = fu] =
                  [steer |-> a.steer, followUp |-> fu, draining |-> a.draining, dropped |-> a.dropped]
           /\ [a EXCEPT !.draining = dr] =
                  [steer |-> a.steer, followUp |-> a.followUp, draining |-> dr, dropped |-> a.dropped]
           /\ [a EXCEPT !.dropped = dp] =
                  [steer |-> a.steer, followUp |-> a.followUp, draining |-> a.draining, dropped |-> dp]
           /\ [steer |-> st, followUp |-> fu, draining |-> dr, dropped |-> dp] \in Admission
<1> DEFINE S == Seq(SteerItem)
           F == Seq(FollowUpItem)
           R == SUBSET Requests
<1>1. Admission = [steer : S, followUp : F, draining : R, dropped : R]
  BY DEF Admission
<1>2. st \in S /\ fu \in F /\ dr \in R /\ dp \in R
  OBVIOUS
<1> HIDE DEF S, F, R
<1> QED BY <1>1, <1>2

\* A process that does not wait goes anywhere but to a drain or a schedule.
LEMMA SoundMove ==
    ASSUME NEW a, NEW pcs, NEW its, NEW f, Sound(a, pcs, its, f),
           NEW p \in Procs, NEW x \in Places \ Draining,
           registered => x # "sched" /\ (p \in Requests => pcs[p] \notin Rests \/ x \in Rests),
           NEW its2 \in [Procs -> FollowUpItem \cup {NoItem}], \A q \in Procs : q # p => its2[q] = its[q]
    PROVE  Sound(a, [pcs EXCEPT ![p] = x], its2, f)
<1> DEFINE pcs2 == [pcs EXCEPT ![p] = x]
<1>1. /\ pcs \in [Procs -> Places] /\ pcs2 \in [Procs -> Places] /\ pcs2[p] = x
      /\ \A q \in Procs : q # p => pcs2[q] = pcs[q]
  BY DEF Sound, Shapes
<1>2. x \notin Draining /\ x \notin InHand /\ (registered => x # "sched")
  BY DEF Draining
<1> HIDE DEF pcs2, Draining, InHand, Rests
<1>3. Shapes(a, pcs2, its2)
  BY <1>1, <1>2 DEF Sound, Shapes
<1>4. ASSUME registered PROVE Books(a, pcs2, its2, f)
  <2>1. BookedOnce(a) /\ Fated(a, pcs, f) /\ Hands(a, pcs, its)
    BY <1>4 DEF Sound, Books
  <2>2. Hands(a, pcs2, its2)
    BY <1>1, <1>2, <2>1 DEF Hands
  <2>3. Requests \subseteq Procs /\ Booked(a) \subseteq Requests
    <3>1. a \in Admission
      BY DEF Sound, Shapes
    <3> QED BY <3>1, AdmissionFields, IdsAreRequests, SourcesAreRequests DEF Procs, Booked
  <2>4. Fated(a, pcs2, f)
    BY <1>1, <1>2, <1>4, <2>1, <2>3 DEF Fated
  <2> QED BY <2>1, <2>2, <2>4 DEF Books
<1> QED BY <1>3, <1>4 DEF Sound, pcs2

\* What is booked is a prompt.
LEMMA BookedAreRequests ==
    ASSUME NEW a \in Admission
    PROVE  /\ Booked(a) \subseteq Requests /\ Requests \subseteq Procs
           /\ QueuedIds(a) = Ids(a.followUp) /\ PromotedIds(a) = Sources(a.steer)
BY AdmissionFields, IdsAreRequests, SourcesAreRequests DEF Procs, Booked, QueuedIds, PromotedIds,
   Ids, Sources

\* The fate of a prompt that is not booked is free.
LEMMA SoundFate ==
    ASSUME NEW a, NEW pcs, NEW its, NEW f, NEW f2, Sound(a, pcs, its, f), NEW r,
           \A q \in Requests : q # r => f2[q] = f[q],
           registered => r \notin Booked(a) /\ (r \in Requests /\ pcs[r] = "sched" => f2[r] = "accepted")
    PROVE  Sound(a, pcs, its, f2)
<1>1. a \in Admission
  BY DEF Sound, Shapes
<1>2. Booked(a) \subseteq Requests
  BY <1>1, BookedAreRequests
<1> QED BY <1>2 DEF Sound, Books, Fated

\* A prompt that is not booked goes anywhere, scheduled when it is accepted.
LEMMA SoundSched ==
    ASSUME NEW a, NEW pcs, NEW its, NEW f, Sound(a, pcs, its, f), NEW r \in Requests,
           NEW x \in Places \ Draining,
           registered => r \notin Booked(a) /\ (x = "sched" => f[r] = "accepted")
    PROVE  Sound(a, [pcs EXCEPT ![r] = x], its, f)
<1> DEFINE pcs2 == [pcs EXCEPT ![r] = x]
<1>1. a \in Admission /\ pcs \in [Procs -> Places]
  BY DEF Sound, Shapes
<1>2. Booked(a) \subseteq Requests /\ Requests \subseteq Procs
  BY <1>1, BookedAreRequests
<1>3. pcs2 \in [Procs -> Places] /\ pcs2[r] = x /\ \A q \in Procs : q # r => pcs2[q] = pcs[q]
  BY <1>1, <1>2
<1>4. x \notin Draining /\ x \notin InHand
  BY DEF Draining
<1> HIDE DEF pcs2
<1>5. Shapes(a, pcs2, its)
  BY <1>3, <1>4 DEF Sound, Shapes
<1>6. ASSUME registered PROVE Books(a, pcs2, its, f)
  <2>1. BookedOnce(a) /\ Fated(a, pcs, f) /\ Hands(a, pcs, its) /\ r \notin Booked(a)
    BY <1>6 DEF Sound, Books
  <2>2. Hands(a, pcs2, its)
    BY <2>1, <1>3, <1>4 DEF Hands
  <2>3. Fated(a, pcs2, f)
    BY <2>1, <1>2, <1>3, <1>6 DEF Fated
  <2> QED BY <2>1, <2>2, <2>3 DEF Books
<1> QED BY <1>5, <1>6 DEF Sound, pcs2

\* A drain lets go of its prompt (finish_follow_up_drain).
LEMMA SoundFinish ==
    ASSUME NEW a, NEW pcs, NEW its, NEW f, Sound(a, pcs, its, f),
           NEW p \in Procs, pcs[p] \in InHand, NEW x \in Places \ (InHand \cup {"sched"}),
           NEW its2 \in [Procs -> FollowUpItem \cup {NoItem}], \A q \in Procs : q # p => its2[q] = its[q],
           x \in Draining => its2[p] \in FollowUpItem
    PROVE  /\ Sound(FinishFollowUpDrain(a, its[p].rid), [pcs EXCEPT ![p] = x], its2, f)
           /\ its[p] \in FollowUpItem /\ its[p].rid \in Requests
           /\ registered => /\ its[p].rid \notin Booked(FinishFollowUpDrain(a, its[p].rid))
                            /\ its[p].rid \in a.draining /\ its[p].rid # p
                            /\ pcs[its[p].rid] \in Rests
                            /\ its[p].rid \notin a.dropped => f[its[p].rid] = "accepted"
<1> DEFINE r == its[p].rid
           a2 == FinishFollowUpDrain(a, r)
           pcs2 == [pcs EXCEPT ![p] = x]
<1>1. a \in Admission /\ a.dropped \subseteq a.draining /\ pcs \in [Procs -> Places]
  BY DEF Sound, Shapes
<1>2. Booked(a) \subseteq Requests /\ Requests \subseteq Procs
  BY <1>1, BookedAreRequests
<1>3. /\ pcs2 \in [Procs -> Places] /\ pcs2[p] = x /\ \A q \in Procs : q # p => pcs2[q] = pcs[q]
      /\ x \notin InHand /\ x # "sched" /\ pcs[p] \notin Rests
  BY <1>1 DEF InHand, Rests
<1>4. its[p] \in FollowUpItem /\ r \in Requests
  BY DEF Sound, Shapes, Draining, FollowUpItem
<1>5. /\ a2 = [steer |-> a.steer, followUp |-> a.followUp, draining |-> a.draining \ {r}, dropped |-> a.dropped \ {r}]
      /\ a2 \in Admission
  <2> DEFINE dr == a.draining \ {r}
             dp == a.dropped \ {r}
  <2>1. dr \in SUBSET Requests /\ dp \in SUBSET Requests
    BY <1>1, AdmissionFields
  <2>2. a2 = [[a EXCEPT !.draining = dr] EXCEPT !.dropped = dp]
    BY DEF FinishFollowUpDrain
  <2>3. a.steer \in Seq(SteerItem) /\ a.followUp \in Seq(FollowUpItem)
    BY <1>1, AdmissionFields
  <2> HIDE DEF dr, dp, a2
  <2>4. a2 = [steer |-> a.steer, followUp |-> a.followUp, draining |-> dr, dropped |-> dp]
    <3>1. [a EXCEPT !.draining = dr] =
              [steer |-> a.steer, followUp |-> a.followUp, draining |-> dr, dropped |-> a.dropped]
      BY <1>1, <2>1, <2>3, AdmissionOf
    <3> QED BY <2>2, <3>1
  <2>5. [steer |-> a.steer, followUp |-> a.followUp, draining |-> dr, dropped |-> dp] \in Admission
    BY <1>1, <2>1, <2>3, AdmissionOf
  <2> QED BY <2>4, <2>5 DEF dr, dp
<1>6. /\ a2.steer = a.steer /\ a2.followUp = a.followUp
      /\ a2.draining = a.draining \ {r} /\ a2.dropped = a.dropped \ {r}
  BY <1>5
<1> HIDE DEF a2, pcs2, r, InHand, Draining, Rests
<1>7. Shapes(a2, pcs2, its2)
  BY <1>1, <1>3, <1>5, <1>6 DEF Sound, Shapes
<1>8. ASSUME registered
      PROVE  /\ Books(a2, pcs2, its2, f) /\ r \notin Booked(a2) /\ r \in a.draining /\ r # p
             /\ pcs[r] \in Rests /\ (r \notin a.dropped => f[r] = "accepted")
  <2>1. BookedOnce(a) /\ Fated(a, pcs, f) /\ Hands(a, pcs, its)
    BY <1>8 DEF Sound, Books
  <2>2. r \in a.draining /\ r \in Booked(a)
    BY <2>1 DEF Hands, Booked, r
  <2>3. BookedOnce(a2) /\ Booked(a2) = Booked(a) \ {r}
    BY <2>1, <2>2, <1>6 DEF BookedOnce, Booked
  <2>4. pcs[r] \in Rests /\ (r \notin a.dropped => f[r] = "accepted")
    BY <2>1, <2>2 DEF Fated
  <2>5. \A q \in Procs : q # p /\ pcs[q] \in InHand => its[q].rid # r
    BY <2>1 DEF Hands, r
  <2>6. Hands(a2, pcs2, its2)
    BY <2>1, <2>5, <1>3, <1>6 DEF Hands
  <2>7. pcs[r] \in Rests /\ r # p
    BY <2>1, <2>2, <1>3 DEF Fated
  <2>8. Fated(a2, pcs2, f)
    <3>1. \A q \in Booked(a2) : q \in Booked(a) /\ q # r /\ q # p
      BY <2>1, <2>3, <1>3 DEF Fated
    <3> QED BY <2>1, <3>1, <1>2, <1>3, <1>6 DEF Fated
  <2> QED BY <2>2, <2>3, <2>4, <2>6, <2>7, <2>8 DEF Books
<1>9. Sound(a2, pcs2, its2, f)
  BY <1>7, <1>8 DEF Sound
<1>10. registered => /\ r \notin Booked(a2) /\ r \in a.draining /\ r # p /\ pcs[r] \in Rests
                     /\ r \notin a.dropped => f[r] = "accepted"
  BY <1>8
<1> QED BY <1>4, <1>9, <1>10 DEF a2, pcs2, r

\* Queues with prompts that were booked, and with new ones that wait.
LEMMA SoundQueues ==
    ASSUME NEW a, NEW pcs, NEW its, NEW f, Sound(a, pcs, its, f),
           NEW st \in Seq(SteerItem), NEW fu \in Seq(FollowUpItem), NEW N,
           ~registered => st = <<>>,
           registered => /\ Once(fu) /\ OnceFrom(st) /\ Ids(fu) \cap Sources(st) = {}
                         /\ Ids(fu) \cup Sources(st) \subseteq Ids(a.followUp) \cup Sources(a.steer) \cup N
                         /\ \A r \in N : r \notin Booked(a) /\ pcs[r] \in Rests /\ f[r] = "accepted"
    PROVE  LET a2 == [steer |-> st, followUp |-> fu, draining |-> a.draining, dropped |-> a.dropped]
           IN  Sound(a2, pcs, its, f)
<1> DEFINE a2 == [steer |-> st, followUp |-> fu, draining |-> a.draining, dropped |-> a.dropped]
<1>1. a \in Admission /\ a.dropped \subseteq a.draining
  BY DEF Sound, Shapes
<1>2. a2 \in Admission
  BY <1>1, AdmissionOf, AdmissionFields
<1>3. a2.steer = st /\ a2.followUp = fu /\ a2.draining = a.draining /\ a2.dropped = a.dropped
  OBVIOUS
<1> HIDE DEF a2, InHand, Draining, Rests
<1>4. Shapes(a2, pcs, its)
  BY <1>1, <1>2, <1>3 DEF Sound, Shapes
<1>5. ASSUME registered PROVE Books(a2, pcs, its, f)
  <2>1. BookedOnce(a) /\ Fated(a, pcs, f) /\ Hands(a, pcs, its)
    BY <1>5 DEF Sound, Books
  <2>2. Ids(fu) \cap a.draining = {} /\ Sources(st) \cap a.draining = {}
    BY <1>5, <2>1 DEF BookedOnce, Booked
  <2>3. BookedOnce(a2)
    BY <1>3, <1>5, <2>2 DEF BookedOnce
  <2>4. Hands(a2, pcs, its)
    BY <1>3, <2>1 DEF Hands
  <2>5. \A r \in Booked(a2) : r \in Booked(a) \/ r \in N
    BY <1>3, <1>5 DEF Booked
  <2>6. \A r \in N : r \notin a.dropped
    BY <1>1, <1>5 DEF Booked
  <2>7. Fated(a2, pcs, f)
    BY <1>3, <1>5, <2>1, <2>5, <2>6 DEF Fated
  <2> QED BY <2>3, <2>4, <2>7 DEF Books
<1> QED BY <1>4, <1>5 DEF Sound, a2

\* A prompt that waits joins the queue at its end (enqueue_follow_up) or at its
\* front (requeue_follow_up_front).
LEMMA SoundEnqueue ==
    ASSUME NEW a, NEW pcs, NEW its, NEW f, Sound(a, pcs, its, f), NEW x \in FollowUpItem,
           registered => x.rid \notin Booked(a) /\ pcs[x.rid] \in Rests /\ f[x.rid] = "accepted"
    PROVE  /\ Sound(EnqueueFollowUp(a, x), pcs, its, f)
           /\ EnqueueFollowUp(a, x).followUp # <<>>
           /\ Sound([a EXCEPT !.followUp = <<x>> \o @], pcs, its, f)
<1>1. a \in Admission /\ a.dropped \subseteq a.draining /\ (~registered => a.steer = <<>>)
  BY DEF Sound, Shapes
<1>2. a.followUp \in Seq(FollowUpItem) /\ a.steer \in Seq(SteerItem)
  BY <1>1, AdmissionFields
<1>3. registered => /\ Once(a.followUp) /\ OnceFrom(a.steer) /\ Ids(a.followUp) \cap Sources(a.steer) = {}
                    /\ x.rid \notin Ids(a.followUp) /\ x.rid \notin Sources(a.steer)
  BY DEF Sound, Books, BookedOnce, Booked
<1> DEFINE b == Append(a.followUp, x)
           c == <<x>> \o a.followUp
<1>4. /\ b \in Seq(FollowUpItem) /\ b # <<>>
      /\ registered => Once(b) /\ Ids(b) = Ids(a.followUp) \cup {x.rid}
  BY <1>2, <1>3, JoinEnd, AppendProperties
<1>5. /\ c \in Seq(FollowUpItem)
      /\ registered => Once(c) /\ Ids(c) = Ids(a.followUp) \cup {x.rid}
  <2>1. c \in Seq(FollowUpItem)
    BY <1>2
  <2> QED BY <2>1, <1>2, <1>3, JoinFront
<1> HIDE DEF b, c
<1>6. /\ EnqueueFollowUp(a, x) = [steer |-> a.steer, followUp |-> b, draining |-> a.draining, dropped |-> a.dropped]
      /\ [a EXCEPT !.followUp = <<x>> \o @] =
            [steer |-> a.steer, followUp |-> c, draining |-> a.draining, dropped |-> a.dropped]
  <2>1. EnqueueFollowUp(a, x) = [a EXCEPT !.followUp = b] /\ [a EXCEPT !.followUp = <<x>> \o @] = [a EXCEPT !.followUp = c]
    BY DEF EnqueueFollowUp, b, c
  <2>2. /\ [a EXCEPT !.followUp = b] =
              [steer |-> a.steer, followUp |-> b, draining |-> a.draining, dropped |-> a.dropped]
        /\ [a EXCEPT !.followUp = c] =
              [steer |-> a.steer, followUp |-> c, draining |-> a.draining, dropped |-> a.dropped]
    BY <1>1, <1>2, <1>4, <1>5, AdmissionOf, AdmissionFields
  <2> QED BY <2>1, <2>2
<1> DEFINE N == {x.rid}
<1>7. registered => \A r \in N : r \notin Booked(a) /\ pcs[r] \in Rests /\ f[r] = "accepted"
  OBVIOUS
<1>8. Sound([steer |-> a.steer, followUp |-> b, draining |-> a.draining, dropped |-> a.dropped], pcs, its, f)
  <2>1. registered => /\ Once(b) /\ OnceFrom(a.steer) /\ Ids(b) \cap Sources(a.steer) = {}
                      /\ Ids(b) \cup Sources(a.steer) \subseteq Ids(a.followUp) \cup Sources(a.steer) \cup N
    BY <1>3, <1>4
  <2> HIDE DEF N
  <2> QED BY <1>1, <1>2, <1>4, <1>7, <2>1, SoundQueues
<1>9. Sound([steer |-> a.steer, followUp |-> c, draining |-> a.draining, dropped |-> a.dropped], pcs, its, f)
  <2>1. registered => /\ Once(c) /\ OnceFrom(a.steer) /\ Ids(c) \cap Sources(a.steer) = {}
                      /\ Ids(c) \cup Sources(a.steer) \subseteq Ids(a.followUp) \cup Sources(a.steer) \cup N
    BY <1>3, <1>5
  <2> HIDE DEF N
  <2> QED BY <1>1, <1>2, <1>5, <1>7, <2>1, SoundQueues
<1> QED BY <1>4, <1>6, <1>8, <1>9

\* A prompt leaves the queue (_follow_up_index and the deletion there).
LEMMA SoundLeave ==
    ASSUME NEW a, NEW pcs, NEW its, NEW f, Sound(a, pcs, its, f), registered, NEW r \in QueuedIds(a)
    PROVE  /\ Sound(WithoutFollowUp(a, r), pcs, its, f) /\ r \notin Booked(WithoutFollowUp(a, r))
           /\ r \in Requests /\ pcs[r] \in Rests /\ f[r] = "accepted"
<1>1. a \in Admission /\ a.dropped \subseteq a.draining
  BY DEF Sound, Shapes
<1>2. a.followUp \in Seq(FollowUpItem) /\ a.steer \in Seq(SteerItem)
  BY <1>1, AdmissionFields
<1>3. BookedOnce(a) /\ Fated(a, pcs, f)
  BY DEF Sound, Books
<1>4. r \in Ids(a.followUp) /\ r \in Requests /\ r \notin a.dropped /\ r \in Booked(a)
  BY <1>1, <1>3, BookedAreRequests DEF BookedOnce, Booked
<1> DEFINE i == FollowUpIndex(a, r)
           t == SubSeq(a.followUp, 1, i - 1) \o SubSeq(a.followUp, i + 1, Len(a.followUp))
<1>5. i \in DOMAIN a.followUp /\ a.followUp[i].rid = r
  <2>1. PICK k \in DOMAIN a.followUp : a.followUp[k].rid = r
    BY <1>4 DEF Ids
  <2>2. Len(a.followUp) \in Nat /\ DOMAIN a.followUp = 1..Len(a.followUp)
    BY <1>2
  <2>3. \A j \in 1..(k - 1) : j \in DOMAIN a.followUp /\ j # k
    BY <2>2
  <2>4. \A j \in 1..(k - 1) : a.followUp[j].rid # r
    BY <1>3, <2>1, <2>3 DEF BookedOnce, Once
  <2> QED BY <2>1, <2>4 DEF FollowUpIndex
<1> HIDE DEF i
<1>6. t \in Seq(FollowUpItem) /\ Once(t) /\ Ids(t) = Ids(a.followUp) \ {r}
  BY <1>2, <1>3, <1>5, LeaveAt DEF BookedOnce
<1> HIDE DEF t
<1>7. WithoutFollowUp(a, r) = [steer |-> a.steer, followUp |-> t, draining |-> a.draining, dropped |-> a.dropped]
  <2>1. WithoutFollowUp(a, r) = [a EXCEPT !.followUp = t]
    BY DEF WithoutFollowUp, t, i
  <2> QED BY <1>1, <1>2, <1>6, <2>1, AdmissionOf, AdmissionFields
<1> DEFINE N == {}
<1>8. Sound([steer |-> a.steer, followUp |-> t, draining |-> a.draining, dropped |-> a.dropped], pcs, its, f)
  <2>1. /\ OnceFrom(a.steer) /\ Ids(t) \cap Sources(a.steer) = {}
        /\ Ids(t) \cup Sources(a.steer) \subseteq Ids(a.followUp) \cup Sources(a.steer) \cup N
        /\ \A q \in N : q \notin Booked(a) /\ pcs[q] \in Rests /\ f[q] = "accepted"
    BY <1>3, <1>6 DEF BookedOnce
  <2> HIDE DEF N
  <2> QED BY <1>1, <1>2, <1>6, <2>1, SoundQueues
<1>9. r \notin Booked(WithoutFollowUp(a, r))
  BY <1>3, <1>4, <1>6, <1>7 DEF Booked, BookedOnce
<1> QED BY <1>3, <1>4, <1>7, <1>8, <1>9 DEF Fated

\* A steer joins the others: a plain one, or the one of a prompt that waits.
LEMMA SoundSteer ==
    ASSUME NEW a, NEW pcs, NEW its, NEW f, Sound(a, pcs, its, f), registered,
           NEW q \in Requests \cup {NoReq},
           q # NoReq => q \notin Booked(a) /\ pcs[q] \in Rests /\ f[q] = "accepted"
    PROVE  Sound(EnqueueSteer(a, [queued |-> q]), pcs, its, f)
<1>1. a \in Admission /\ a.dropped \subseteq a.draining
  BY DEF Sound, Shapes
<1>2. a.followUp \in Seq(FollowUpItem) /\ a.steer \in Seq(SteerItem)
  BY <1>1, AdmissionFields
<1>3. BookedOnce(a)
  BY DEF Sound, Books
<1> DEFINE x == [queued |-> q]
           t == Append(a.steer, x)
           N == {q} \ {NoReq}
<1>4. x \in SteerItem /\ x.queued = q /\ q \notin Sources(a.steer)
  BY DEF SteerItem, Booked, Sources
<1> HIDE DEF x
<1>5. t \in Seq(SteerItem) /\ OnceFrom(t) /\ Sources(t) = Sources(a.steer) \cup N
  BY <1>2, <1>3, <1>4, SteerJoins DEF BookedOnce
<1> HIDE DEF t
<1>6. EnqueueSteer(a, x) = [steer |-> t, followUp |-> a.followUp, draining |-> a.draining, dropped |-> a.dropped]
  <2>1. EnqueueSteer(a, x) = [a EXCEPT !.steer = t]
    BY DEF EnqueueSteer, t
  <2> QED BY <1>1, <1>2, <1>5, <2>1, AdmissionOf, AdmissionFields
<1>7. Sound([steer |-> t, followUp |-> a.followUp, draining |-> a.draining, dropped |-> a.dropped], pcs, its, f)
  <2>1. /\ Once(a.followUp) /\ Ids(a.followUp) \cap Sources(t) = {}
        /\ Ids(a.followUp) \cup Sources(t) \subseteq Ids(a.followUp) \cup Sources(a.steer) \cup N
        /\ \A r \in N : r \notin Booked(a) /\ pcs[r] \in Rests /\ f[r] = "accepted"
    BY <1>3, <1>5 DEF BookedOnce, Booked
  <2> HIDE DEF N
  <2> QED BY <1>2, <1>5, <2>1, SoundQueues
<1> QED BY <1>6, <1>7 DEF x

\* A turn takes the oldest steer (pop_steer).
LEMMA SoundPopSteer ==
    ASSUME NEW a, NEW pcs, NEW its, NEW f, Sound(a, pcs, its, f), a.steer # <<>>
    PROVE  /\ registered /\ Sound(PopSteer(a), pcs, its, f)
           /\ Head(a.steer).queued \in Requests \cup {NoReq}
           /\ Head(a.steer).queued # NoReq =>
                 /\ Head(a.steer).queued \notin Booked(PopSteer(a))
                 /\ pcs[Head(a.steer).queued] \in Rests /\ f[Head(a.steer).queued] = "accepted"
<1>1. a \in Admission /\ a.dropped \subseteq a.draining /\ registered
  BY DEF Sound, Shapes
<1>2. a.followUp \in Seq(FollowUpItem) /\ a.steer \in Seq(SteerItem)
  BY <1>1, AdmissionFields
<1>3. BookedOnce(a) /\ Fated(a, pcs, f)
  BY <1>1 DEF Sound, Books
<1> DEFINE q == Head(a.steer).queued
           t == Tail(a.steer)
           N == {}
<1>4. /\ t \in Seq(SteerItem) /\ OnceFrom(t) /\ Sources(t) = Sources(a.steer) \ {q}
      /\ q \in Sources(a.steer) \cup {NoReq} /\ Head(a.steer) \in SteerItem
  BY <1>2, <1>3, SteerLeaves DEF BookedOnce
<1>5. q \in Requests \cup {NoReq}
  BY <1>4 DEF SteerItem
<1> HIDE DEF t, q
<1>6. PopSteer(a) = [steer |-> t, followUp |-> a.followUp, draining |-> a.draining, dropped |-> a.dropped]
  <2>1. PopSteer(a) = [a EXCEPT !.steer = t]
    BY DEF PopSteer, t
  <2> QED BY <1>1, <1>2, <1>4, <2>1, AdmissionOf, AdmissionFields
<1>7. Sound([steer |-> t, followUp |-> a.followUp, draining |-> a.draining, dropped |-> a.dropped], pcs, its, f)
  <2>1. /\ Once(a.followUp) /\ Ids(a.followUp) \cap Sources(t) = {}
        /\ Ids(a.followUp) \cup Sources(t) \subseteq Ids(a.followUp) \cup Sources(a.steer) \cup N
        /\ \A r \in N : r \notin Booked(a) /\ pcs[r] \in Rests /\ f[r] = "accepted"
    BY <1>3, <1>4 DEF BookedOnce
  <2> HIDE DEF N
  <2> QED BY <1>1, <1>2, <1>4, <2>1, SoundQueues
<1>8. ASSUME q # NoReq PROVE q \notin Booked(PopSteer(a)) /\ pcs[q] \in Rests /\ f[q] = "accepted"
  <2>1. q \in Sources(a.steer) /\ q \in Booked(a) /\ q \notin a.dropped /\ q \notin a.draining /\ q \notin Ids(a.followUp)
    BY <1>1, <1>3, <1>4, <1>8 DEF BookedOnce, Booked
  <2>2. pcs[q] \in Rests /\ f[q] = "accepted"
    BY <1>3, <2>1 DEF Fated
  <2>3. q \notin Booked(PopSteer(a))
    BY <1>4, <1>6, <2>1 DEF Booked
  <2> QED BY <2>2, <2>3
<1> QED BY <1>1, <1>5, <1>6, <1>7, <1>8 DEF q

\* Promoted steers go back to the queue, and all steers may go (clear_steer).
LEMMA SoundRestore ==
    ASSUME NEW a, NEW pcs, NEW its, NEW f, Sound(a, pcs, its, f)
    PROVE  Sound(RestorePromotedSteers(a), pcs, its, f) /\ Sound(ClearSteer(a), pcs, its, f)
<1>1. a \in Admission /\ a.dropped \subseteq a.draining /\ (~registered => a.steer = <<>>)
  BY DEF Sound, Shapes
<1>2. a.followUp \in Seq(FollowUpItem) /\ a.steer \in Seq(SteerItem)
  BY <1>1, AdmissionFields
<1>3. registered => BookedOnce(a)
  BY DEF Sound, Books
<1>4. OnceFrom(a.steer)
  <2>1. OnceFrom(<<>>)
    BY DEF OnceFrom
  <2> QED BY <1>1, <1>3, <2>1 DEF BookedOnce
<1> DEFINE promoted == {i \in DOMAIN a.steer : a.steer[i].queued # NoReq}
           back     == Sublist(a.steer, promoted)
           fresh    == [i \in DOMAIN back |-> NewFollowUp(back[i].queued, "human")]
           plain    == Sublist(a.steer, DOMAIN a.steer \ promoted)
           fu       == fresh \o a.followUp
           N        == {}
<1>5. /\ fresh \in Seq(FollowUpItem) /\ Once(fresh) /\ Ids(fresh) = Sources(a.steer)
      /\ plain \in Seq(SteerItem) /\ OnceFrom(plain) /\ Sources(plain) = {}
  BY <1>2, <1>4, SteersGoBack
<1>6. ~registered => plain = <<>>
  <2>1. a.steer = <<>> => DOMAIN a.steer \ promoted = {}
    OBVIOUS
  <2>2. Sublist(a.steer, {}) = <<>>
    <3>1. Cardinality({}) = 0
      BY FS_EmptySet
    <3>2. Sublist(a.steer, {}) \in Seq(SteerItem) /\ Len(Sublist(a.steer, {})) = Cardinality({})
      BY <1>2, SublistType
    <3> QED BY <3>1, <3>2
  <2> QED BY <1>1, <2>1, <2>2
<1>7. RestorePromotedSteers(a) = [[a EXCEPT !.steer = plain] EXCEPT !.followUp = fu]
  BY DEF RestorePromotedSteers
<1> HIDE DEF promoted, back, fresh, plain
<1>8. /\ fu \in Seq(FollowUpItem)
      /\ registered => Once(fu) /\ Ids(fu) = Sources(a.steer) \cup Ids(a.followUp)
  <2>1. fu \in Seq(FollowUpItem)
    BY <1>2, <1>5, ConcatProperties
  <2>2. registered => Once(a.followUp) /\ Ids(fresh) \cap Ids(a.followUp) = {}
    BY <1>3, <1>5 DEF BookedOnce
  <2> QED BY <2>1, <2>2, <1>2, <1>5, JoinQueues
<1> HIDE DEF fu
<1> DEFINE b == [steer |-> plain, followUp |-> fu, draining |-> a.draining, dropped |-> a.dropped]
           c == [steer |-> <<>>, followUp |-> fu, draining |-> a.draining, dropped |-> a.dropped]
<1>9. RestorePromotedSteers(a) = b
  <2>1. [a EXCEPT !.steer = plain] =
            [steer |-> plain, followUp |-> a.followUp, draining |-> a.draining, dropped |-> a.dropped]
    BY <1>1, <1>5, <1>8, AdmissionOf, AdmissionFields
  <2> QED BY <1>7, <2>1
<1>10. <<>> \in Seq(SteerItem) /\ OnceFrom(<<>>) /\ Sources(<<>>) = {}
  BY DEF OnceFrom, Sources
<1>11. ClearSteer(a) = c
  <2>1. b \in Admission
    BY <1>1, <1>5, <1>8, AdmissionOf, AdmissionFields
  <2>2. [b EXCEPT !.steer = <<>>] = c
    OBVIOUS
  <2> QED BY <1>9, <2>2 DEF ClearSteer
<1>12. registered => /\ Once(fu) /\ Ids(fu) \subseteq Ids(a.followUp) \cup Sources(a.steer) \cup N
                     /\ \A r \in N : r \notin Booked(a) /\ pcs[r] \in Rests /\ f[r] = "accepted"
  BY <1>8
<1> HIDE DEF N
<1>13. Sound(b, pcs, its, f)
  <2>1. registered => /\ Once(fu) /\ OnceFrom(plain) /\ Ids(fu) \cap Sources(plain) = {}
                      /\ Ids(fu) \cup Sources(plain) \subseteq Ids(a.followUp) \cup Sources(a.steer) \cup N
                      /\ \A r \in N : r \notin Booked(a) /\ pcs[r] \in Rests /\ f[r] = "accepted"
    BY <1>5, <1>12
  <2> QED BY <1>5, <1>6, <1>8, <2>1, SoundQueues
<1>14. Sound(c, pcs, its, f)
  <2> DEFINE e == <<>>
  <2>1. registered => /\ Once(fu) /\ OnceFrom(e) /\ Ids(fu) \cap Sources(e) = {}
                      /\ Ids(fu) \cup Sources(e) \subseteq Ids(a.followUp) \cup Sources(a.steer) \cup N
                      /\ \A r \in N : r \notin Booked(a) /\ pcs[r] \in Rests /\ f[r] = "accepted"
    BY <1>10, <1>12
  <2>2. e \in Seq(SteerItem) /\ (~registered => e = <<>>)
    BY <1>10
  <2> HIDE DEF e
  <2>3. Sound([steer |-> e, followUp |-> fu, draining |-> a.draining, dropped |-> a.dropped], pcs, its, f)
    BY <1>8, <2>1, <2>2, SoundQueues
  <2> QED BY <2>3 DEF e
<1> QED BY <1>9, <1>11, <1>13, <1>14

\* A DELETE marks a prompt in the hands of a drain.
LEMMA SoundMark ==
    ASSUME NEW a, NEW pcs, NEW its, NEW f, NEW f2, Sound(a, pcs, its, f), registered, NEW r \in a.draining,
           f2[r] = "deleted", \A q \in Requests : q # r => f2[q] = f[q]
    PROVE  /\ Sound([a EXCEPT !.dropped = @ \cup {r}], pcs, its, f2)
           /\ r \in Requests /\ pcs[r] \in Rests /\ f[r] \in {"accepted", "deleted"}
<1> DEFINE a2 == [a EXCEPT !.dropped = a.dropped \cup {r}]
<1>1. a \in Admission /\ a.dropped \subseteq a.draining
  BY DEF Sound, Shapes
<1>2. r \in Requests /\ Booked(a) \subseteq Requests /\ r \in Booked(a)
  BY <1>1, BookedAreRequests DEF Booked
<1>3. /\ a2 = [steer |-> a.steer, followUp |-> a.followUp, draining |-> a.draining, dropped |-> a.dropped \cup {r}]
      /\ a2 \in Admission
  <2> DEFINE dp == a.dropped \cup {r}
  <2>1. dp \in SUBSET Requests /\ a.draining \in SUBSET Requests
    BY <1>1, <1>2, AdmissionFields
  <2>2. a.steer \in Seq(SteerItem) /\ a.followUp \in Seq(FollowUpItem)
    BY <1>1, AdmissionFields
  <2>3. a2 = [a EXCEPT !.dropped = dp]
    OBVIOUS
  <2> HIDE DEF dp, a2
  <2>4. a2 = [steer |-> a.steer, followUp |-> a.followUp, draining |-> a.draining, dropped |-> dp]
    BY <1>1, <2>1, <2>2, <2>3, AdmissionOf
  <2>5. [steer |-> a.steer, followUp |-> a.followUp, draining |-> a.draining, dropped |-> dp] \in Admission
    BY <1>1, <2>1, <2>2, AdmissionOf
  <2> QED BY <2>4, <2>5 DEF dp
<1>4. /\ a2.steer = a.steer /\ a2.followUp = a.followUp
      /\ a2.draining = a.draining /\ a2.dropped = a.dropped \cup {r}
  BY <1>3
<1> HIDE DEF a2
<1>5. Shapes(a2, pcs, its)
  BY <1>1, <1>3, <1>4 DEF Sound, Shapes
<1>6. BookedOnce(a) /\ Fated(a, pcs, f) /\ Hands(a, pcs, its)
  BY DEF Sound, Books
<1>7. BookedOnce(a2) /\ Hands(a2, pcs, its) /\ Booked(a2) = Booked(a)
  BY <1>4, <1>6 DEF BookedOnce, Hands, Booked
<1>8. pcs[r] \in Rests /\ f[r] \in {"accepted", "deleted"} /\ pcs[r] # "sched"
  BY <1>2, <1>6 DEF Fated, Rests
<1>9. Fated(a2, pcs, f2)
  BY <1>2, <1>4, <1>6, <1>7, <1>8 DEF Fated
<1>10. a2 = [a EXCEPT !.dropped = @ \cup {r}]
  BY DEF a2
<1> QED BY <1>2, <1>5, <1>7, <1>8, <1>9, <1>10 DEF Sound, Books

\* A drain takes the oldest prompt (pop_follow_up).
LEMMA SoundPop ==
    ASSUME NEW a, NEW pcs, NEW its, NEW f, Sound(a, pcs, its, f), a.followUp # <<>>,
           NEW p \in Procs, registered /\ p \in Requests => pcs[p] \notin Rests
    PROVE  Sound(PopFollowUp(a), [pcs EXCEPT ![p] = "drainAcq"], [its EXCEPT ![p] = Head(a.followUp)], f)
<1> DEFINE x == Head(a.followUp)
           t == Tail(a.followUp)
           a2 == PopFollowUp(a)
           pcs2 == [pcs EXCEPT ![p] = "drainAcq"]
           its2 == [its EXCEPT ![p] = x]
<1>1. /\ a \in Admission /\ a.dropped \subseteq a.draining
      /\ pcs \in [Procs -> Places] /\ its \in [Procs -> FollowUpItem \cup {NoItem}]
  BY DEF Sound, Shapes
<1>2. a.followUp \in Seq(FollowUpItem) /\ a.steer \in Seq(SteerItem)
  BY <1>1, AdmissionFields
<1>3. x \in FollowUpItem /\ t \in Seq(FollowUpItem) /\ x.rid \in Requests
  <2>1. x \in FollowUpItem /\ t \in Seq(FollowUpItem)
    BY <1>2, HeadTailProperties
  <2> QED BY <2>1 DEF FollowUpItem
<1>4. registered => Once(t) /\ Ids(t) = Ids(a.followUp) \ {x.rid} /\ x.rid \in Ids(a.followUp)
  BY <1>2, LeaveFront DEF Sound, Books, BookedOnce
<1>5. /\ pcs2 \in [Procs -> Places] /\ pcs2[p] = "drainAcq" /\ \A q \in Procs : q # p => pcs2[q] = pcs[q]
      /\ its2[p] = x /\ \A q \in Procs : q # p => its2[q] = its[q]
      /\ its2 \in [Procs -> FollowUpItem \cup {NoItem}]
  BY <1>1, <1>3 DEF Places
<1> HIDE DEF x, t, pcs2, its2
<1>6. /\ a2 = [steer |-> a.steer, followUp |-> t, draining |-> a.draining \cup {x.rid}, dropped |-> a.dropped]
      /\ a2 \in Admission
  <2> DEFINE dr == a.draining \cup {x.rid}
  <2>1. dr \in SUBSET Requests /\ a.dropped \in SUBSET Requests
    BY <1>1, <1>3, AdmissionFields
  <2>2. a2 = [[a EXCEPT !.followUp = t] EXCEPT !.draining = dr]
    BY DEF PopFollowUp, x, t
  <2> HIDE DEF dr, a2
  <2>3. a2 = [steer |-> a.steer, followUp |-> t, draining |-> dr, dropped |-> a.dropped]
    <3>1. [a EXCEPT !.followUp = t] =
              [steer |-> a.steer, followUp |-> t, draining |-> a.draining, dropped |-> a.dropped]
      BY <1>1, <1>2, <1>3, <2>1, AdmissionOf
    <3> QED BY <2>2, <3>1
  <2>4. [steer |-> a.steer, followUp |-> t, draining |-> dr, dropped |-> a.dropped] \in Admission
    BY <1>1, <1>2, <1>3, <2>1, AdmissionOf
  <2> QED BY <2>3, <2>4 DEF dr
<1>7. /\ a2.steer = a.steer /\ a2.followUp = t
      /\ a2.draining = a.draining \cup {x.rid} /\ a2.dropped = a.dropped
  BY <1>6
<1>8. "drainAcq" \in InHand /\ "drainAcq" \in Draining /\ "drainAcq" # "sched"
  BY DEF InHand, Draining
<1> HIDE DEF a2, InHand, Draining, Rests
<1>9. Shapes(a2, pcs2, its2)
  BY <1>1, <1>3, <1>5, <1>6, <1>7 DEF Sound, Shapes
<1>10. ASSUME registered PROVE Books(a2, pcs2, its2, f)
  <2>1. BookedOnce(a) /\ Fated(a, pcs, f) /\ Hands(a, pcs, its)
    BY <1>10 DEF Sound, Books
  <2>2. x.rid \notin a.draining /\ x.rid \notin Sources(a.steer) /\ x.rid \in Booked(a)
    BY <1>4, <1>10, <2>1 DEF BookedOnce, Booked
  <2>3. BookedOnce(a2) /\ Booked(a2) = Booked(a)
    BY <1>4, <1>7, <1>10, <2>1, <2>2 DEF BookedOnce, Booked
  <2>4. Booked(a) \subseteq Requests /\ Requests \subseteq Procs
    BY <1>1, BookedAreRequests
  <2>5. p \notin Booked(a)
    BY <1>10, <2>1, <2>4 DEF Fated
  <2>6. Fated(a2, pcs2, f)
    BY <1>5, <1>7, <1>8, <2>1, <2>3, <2>4, <2>5 DEF Fated
  <2>7. \A q \in Procs : q # p /\ pcs[q] \in InHand => its[q].rid # x.rid
    BY <2>1, <2>2 DEF Hands
  <2>8. Hands(a2, pcs2, its2)
    BY <1>5, <1>7, <2>1, <2>7 DEF Hands
  <2> QED BY <2>3, <2>6, <2>8 DEF Books
<1> QED BY <1>9, <1>10 DEF Sound, a2, pcs2, its2, x

-----------------------------------------------------------------------------
(* The invariant of the books.                                             *)

Arriving == {"acq", "got", "denied"}

AdmTypes ==
    /\ registered \in BOOLEAN /\ stale \in BOOLEAN
    /\ lock \in {{}} \cup {{x} : x \in Requests \cup Foreign}
    /\ current \in Requests \cup {NoReq} /\ active \in Requests \cup {NoReq}
    /\ waking \subseteq Requests /\ awaited \subseteq WakeReqs
    /\ fate \in [Requests -> Fates]
    /\ ranAs \in [Requests -> Provenance \cup {"none"}]
    /\ teardown \in {"none", "detached", "quiesce", "cleaned"}
    /\ victim \in Requests \cup {NoReq}
    /\ registered => teardown = "none"

\* A request that has just arrived is new, and so is a wake before it is sent.
Fresh ==
    /\ \A r \in Requests : pc[r] \in Arriving => fate[r] = "new" /\ r \notin WakeReqs
    /\ registered => \A w \in WakeReqs : fate[w] \in {"new", "ready"} => pc[w] = "idle"

AdmInv == AdmTypes /\ Fresh /\ Sound(adm, pc, item, fate)

\* Three facts about the processes.
LEMMA ProcFacts ==
    /\ Requests \subseteq Procs /\ Retry \in Procs /\ WakeTask \in Procs
    /\ Retry \notin Requests /\ WakeTask \notin Requests /\ NoReq \notin Requests
    /\ WakeReqs \subseteq Requests
    /\ \A p \in Requests : Ended(p) = "done"
    /\ \A p : Ended(p) \in {"idle", "done"}
BY ProcessAssumption, RequestAssumption, NoReqAssumption DEF Procs, Ended

\* The types the steps of the admission rest on.
LEMMA AdmShapes ==
    ASSUME AdmInv
    PROVE  /\ adm \in Admission /\ pc \in [Procs -> Places] /\ item \in [Procs -> FollowUpItem \cup {NoItem}]
           /\ fate \in [Requests -> Fates]
           /\ \A p \in Procs : pc[p] \in Draining => item[p] \in FollowUpItem /\ item[p].rid \in Requests
<1>1. \A p \in Procs : pc[p] \in Draining => item[p] \in FollowUpItem
  BY DEF AdmInv, Sound, Shapes
<1>2. \A x \in FollowUpItem : x.rid \in Requests
  BY DEF FollowUpItem
<1> QED BY <1>1, <1>2 DEF AdmInv, AdmTypes, Sound, Shapes

\* The books after a step that leaves the session where it is.
LEMMA SoundPrime ==
    ASSUME registered' = registered, Sound(adm', pc', item', fate')
    PROVE  Sound(adm, pc, item, fate)'
BY DEF Sound, Shapes

\* A step that lets nobody arrive anew and makes nothing new.
LEMMA FreshKept ==
    ASSUME Fresh, registered' = registered,
           \A q \in Requests : pc'[q] \in Arriving => pc[q] \in Arriving /\ fate'[q] = fate[q],
           registered => \A w \in WakeReqs : fate'[w] \in {"new", "ready"} =>
                            fate[w] \in {"new", "ready"} /\ (pc[w] = "idle" => pc'[w] = "idle")
    PROVE  Fresh'
BY DEF Fresh

\* A call of the drain returns, or goes on with the next prompt.
LEMMA SoundReturn ==
    ASSUME NEW a, NEW pcs, NEW its, NEW f, NEW cur, Sound(a, pcs, its, f), NEW p \in Procs,
           pcs[p] \notin Draining, registered => pcs[p] # "sched" /\ (p \in Requests => pcs[p] \notin Rests),
           ReturnFromDrain(p, a, cur, pcs, its)
    PROVE  /\ Sound(adm', pc', item', f)
           /\ pc' = pcs \/ pc' = [pcs EXCEPT ![p] = "drainAcq"]
           /\ waking' \subseteq waking
<1> DEFINE b == IF p \in waking THEN RestorePromotedSteers(a) ELSE a
<1>1. Sound(b, pcs, its, f)
  BY SoundRestore
<1>2. waking' \subseteq waking
  BY DEF ReturnFromDrain
<1>3. \/ b.followUp # <<>> /\ PopInto(p, b, pcs, its)
      \/ adm' = b /\ pc' = pcs /\ item' = ForgetItem(its, p)
  BY DEF ReturnFromDrain
<1> HIDE DEF b
<1>4. CASE b.followUp # <<>> /\ PopInto(p, b, pcs, its)
  <2>1. /\ adm' = PopFollowUp(b) /\ item' = [its EXCEPT ![p] = Head(b.followUp)]
        /\ pc' = [pcs EXCEPT ![p] = "drainAcq"]
    BY <1>4 DEF PopInto
  <2> QED BY <1>1, <1>2, <1>4, <2>1, SoundPop
<1>5. CASE adm' = b /\ pc' = pcs /\ item' = ForgetItem(its, p)
  <2> DEFINE x == pcs[p]
             its2 == ForgetItem(its, p)
  <2>1. pcs \in [Procs -> Places] /\ its \in [Procs -> FollowUpItem \cup {NoItem}]
    BY DEF Sound, Shapes
  <2>2. /\ x \in Places \ Draining /\ [pcs EXCEPT ![p] = x] = pcs
        /\ its2 \in [Procs -> FollowUpItem \cup {NoItem}] /\ \A q \in Procs : q # p => its2[q] = its[q]
    BY <2>1 DEF ForgetItem
  <2> HIDE DEF x, its2
  <2>3. Sound(b, [pcs EXCEPT ![p] = x], its2, f)
    BY <1>1, <2>2, SoundMove DEF x
  <2> QED BY <1>2, <1>5, <2>2, <2>3 DEF its2
<1> QED BY <1>3, <1>4, <1>5

\* A call of the drain begins.
LEMMA SoundEnter ==
    ASSUME NEW a, NEW f, NEW cur, NEW p \in Requests \cup {Retry, WakeTask}, pc \in [Procs -> Places],
           Sound(a, [pc EXCEPT ![p] = Ended(p)], item, f), EnterDrain(p, a, cur)
    PROVE  /\ Sound(adm', pc', item', f)
           /\ pc' = [pc EXCEPT ![p] = Ended(p)] \/ pc' = [pc EXCEPT ![p] = "drainAcq"]
           /\ waking' \subseteq waking
<1> DEFINE pcs == [pc EXCEPT ![p] = Ended(p)]
<1>1. p \in Procs /\ Ended(p) \in {"idle", "done"} /\ (p \in Requests => Ended(p) = "done")
  BY ProcFacts
<1>2. pcs[p] = Ended(p) /\ [pcs EXCEPT ![p] = "drainAcq"] = [pc EXCEPT ![p] = "drainAcq"]
  BY <1>1
<1>3. pcs[p] \notin Draining /\ pcs[p] # "sched" /\ (p \in Requests => pcs[p] \notin Rests)
  BY <1>1, <1>2 DEF Draining, InHand, Rests
<1> HIDE DEF pcs
<1>4. Sound(a, pcs, item, f)
  BY DEF pcs
<1>5. CASE cur = NoReq /\ a.followUp # <<>>
  <2>1. /\ adm' = PopFollowUp(a) /\ item' = [item EXCEPT ![p] = Head(a.followUp)]
        /\ pc' = [pcs EXCEPT ![p] = "drainAcq"] /\ waking' = waking
    BY <1>2, <1>5 DEF EnterDrain, PopInto
  <2>2. Sound(adm', pc', item', f)
    BY <1>1, <1>3, <1>4, <1>5, <2>1, SoundPop
  <2> QED BY <1>2, <2>1, <2>2
<1>6. CASE ~(cur = NoReq /\ a.followUp # <<>>)
  <2>1. ReturnFromDrain(p, a, cur, pcs, item)
    BY <1>6 DEF EnterDrain, pcs
  <2>2. /\ Sound(adm', pc', item', f) /\ waking' \subseteq waking
        /\ pc' = pcs \/ pc' = [pcs EXCEPT ![p] = "drainAcq"]
    BY <1>1, <1>3, <1>4, <2>1, SoundReturn
  <2> QED BY <1>2, <2>2 DEF pcs
<1> QED BY <1>5, <1>6

\* A drain goes on, and takes no prompt into its hands.
LEMMA SoundHold ==
    ASSUME NEW a, NEW pcs, NEW its, NEW f, Sound(a, pcs, its, f), NEW p \in Procs,
           pcs[p] \in Draining, NEW x \in Draining, x \in InHand => pcs[p] \in InHand
    PROVE  Sound(a, [pcs EXCEPT ![p] = x], its, f)
<1> DEFINE pcs2 == [pcs EXCEPT ![p] = x]
<1>1. a \in Admission /\ pcs \in [Procs -> Places]
  BY DEF Sound, Shapes
<1>2. x \in Places /\ x # "sched" /\ pcs[p] \notin Rests
  BY DEF Draining, InHand, Places, Rests
<1>3. pcs2 \in [Procs -> Places] /\ pcs2[p] = x /\ \A q \in Procs : q # p => pcs2[q] = pcs[q]
  BY <1>1, <1>2
<1>4. Booked(a) \subseteq Requests /\ Requests \subseteq Procs
  BY <1>1, BookedAreRequests
<1> HIDE DEF pcs2, Draining, InHand, Rests
<1>5. Shapes(a, pcs2, its)
  BY <1>3 DEF Sound, Shapes
<1>6. ASSUME registered PROVE Books(a, pcs2, its, f)
  <2>1. BookedOnce(a) /\ Fated(a, pcs, f) /\ Hands(a, pcs, its)
    BY <1>6 DEF Sound, Books
  <2>2. Hands(a, pcs2, its)
    BY <1>3, <2>1 DEF Hands
  <2>3. Fated(a, pcs2, f)
    BY <1>2, <1>3, <1>4, <2>1 DEF Fated
  <2> QED BY <2>1, <2>2, <2>3 DEF Books
<1> QED BY <1>5, <1>6 DEF Sound, pcs2

\* One process moves on, and at most one prompt that is not new is settled.
LEMMA FreshMove ==
    ASSUME Fresh, registered' = registered, NEW p,
           \A q \in Requests : q # p => pc'[q] = pc[q],
           pc'[p] \notin Arriving, registered /\ p \in Requests => pc[p] # "idle",
           fate \in [Requests -> Fates],
           \/ fate' = fate
           \/ \E r \in Requests, x \in Fates \ {"new", "ready"} :
                 pc[r] \notin Arriving /\ fate' = [fate EXCEPT ![r] = x]
    PROVE  Fresh'
<1>1. CASE fate' = fate
  <2>1. registered => \A w \in WakeReqs : pc[w] = "idle" => pc'[w] = "idle"
    BY ProcFacts
  <2>2. \A q \in Requests : pc'[q] \in Arriving => pc[q] \in Arriving
    OBVIOUS
  <2> QED BY <1>1, <2>1, <2>2, FreshKept
<1>2. ASSUME NEW r \in Requests, NEW x \in Fates \ {"new", "ready"},
             pc[r] \notin Arriving, fate' = [fate EXCEPT ![r] = x]
      PROVE  Fresh'
  <2>1. \A q \in Requests : fate'[q] = IF q = r THEN x ELSE fate[q]
    BY <1>2
  <2>2. \A q \in Requests : pc'[q] \in Arriving => pc[q] \in Arriving /\ fate'[q] = fate[q]
    BY <1>2, <2>1
  <2>3. registered => \A w \in WakeReqs : fate'[w] \in {"new", "ready"} =>
                         fate[w] \in {"new", "ready"} /\ (pc[w] = "idle" => pc'[w] = "idle")
    BY <1>2, <2>1, ProcFacts
  <2> QED BY <2>2, <2>3, FreshKept
<1> QED BY <1>1, <1>2

-----------------------------------------------------------------------------
(* The steps.  Each keeps the invariant, and each is a step of the life of  *)
(* one request, or none.                                                    *)

Settled == {"started", "injected", "deleted", "expired", "skipped"}

\* What the fate of a request may become.
LEMMA LifeSteps ==
    ASSUME NEW r \in Requests
    PROVE  /\ \A x \in Settled : fate[r] = "accepted" /\ fate' = [fate EXCEPT ![r] = x] => Lifecycle!Next
           /\ fate[r] = "new" /\ fate' = [fate EXCEPT ![r] = "refused"] => Lifecycle!Next
           /\ fate[r] = "new" /\ fate' = [fate EXCEPT ![r] = "ready"] => Lifecycle!Next
           /\ \A x \in {"accepted", "cleared"} :
                 fate[r] \in {"new", "ready"} /\ fate' = [fate EXCEPT ![r] = x] => Lifecycle!Next
BY DEF Settled, Lifecycle!Next, Lifecycle!Settle, Lifecycle!Refuse, Lifecycle!Ready,
   Lifecycle!Accept, Lifecycle!Becomes

\* The drain takes its lock, loses its prompt to a DELETE, or goes on.
LEMMA DrainKeepsBooks ==
    ASSUME NEW p \in Requests \cup {Retry, WakeTask}, AdmInv,
           DrainAcquire(p) \/ DrainDropped(p) \/ DrainRelease(p) \/ DrainAgain(p)
    PROVE  AdmInv' /\ fate' = fate
<1>1. p \in Procs /\ Ended(p) \in {"idle", "done"} /\ (p \in Requests => Ended(p) = "done")
  BY ProcFacts
<1>2. /\ pc \in [Procs -> Places] /\ item \in [Procs -> FollowUpItem \cup {NoItem}] /\ fate \in [Requests -> Fates]
      /\ \A q \in Procs : pc[q] \in Draining => item[q] \in FollowUpItem /\ item[q].rid \in Requests
      /\ Requests \subseteq Procs
  BY AdmShapes, ProcFacts
<1>3. Sound(adm, pc, item, fate) /\ Fresh /\ AdmTypes
  BY DEF AdmInv
<1>4. CASE DrainAcquire(p)
  <2>1. PICK x \in {"drainGot", "drainDenied"} : pc' = [pc EXCEPT ![p] = x]
    BY <1>4 DEF DrainAcquire, TryAcquire
  <2>2. /\ pc[p] = "drainAcq" /\ adm' = adm /\ item' = item /\ fate' = fate /\ registered' = registered
        /\ (lock' = {item[p].rid} /\ stale' = FALSE) \/ UNCHANGED <<lock, stale>>
        /\ UNCHANGED <<current, active, waking, awaited, ranAs, teardown, victim>>
    BY <1>4 DEF DrainAcquire, TryAcquire, lockVars, busVars, histVars
  <2>3. pc[p] \in Draining /\ pc[p] \in InHand /\ x \in Draining /\ x \notin Arriving
    BY <2>2 DEF Draining, InHand, Arriving
  <2>4. Sound(adm', pc', item', fate')
    BY <1>1, <1>3, <2>1, <2>2, <2>3, SoundHold
  <2>5. Fresh'
    BY <1>1, <1>2, <1>3, <2>1, <2>2, <2>3, FreshMove
  <2>6. AdmTypes'
    BY <1>1, <1>2, <1>3, <2>2, <2>3 DEF AdmTypes
  <2> QED BY <2>2, <2>4, <2>5, <2>6, SoundPrime DEF AdmInv
<1>5. CASE DrainDropped(p)
  <2>1. /\ pc[p] = "drainGot" /\ adm' = FinishFollowUpDrain(adm, item[p].rid)
        /\ pc' = [pc EXCEPT ![p] = "drainDrop"] /\ item' = item /\ fate' = fate /\ registered' = registered
        /\ UNCHANGED <<lock, stale, current, active, waking, awaited, ranAs, teardown, victim>>
    BY <1>5 DEF DrainDropped, lockVars, histVars, deleteVars
  <2>2. /\ pc[p] \in InHand /\ "drainDrop" \in Places \ (InHand \cup {"sched"}) /\ "drainDrop" \notin Arriving
        /\ item[p] \in FollowUpItem
    BY <1>1, <1>2, <2>1 DEF Draining, InHand, Places, Arriving
  <2>3. Sound(adm', pc', item', fate')
    BY <1>1, <1>2, <1>3, <2>1, <2>2, SoundFinish
  <2>4. Fresh'
    BY <1>1, <1>2, <1>3, <2>1, <2>2, FreshMove
  <2>5. AdmTypes'
    BY <1>3, <2>1 DEF AdmTypes
  <2> QED BY <2>1, <2>3, <2>4, <2>5, SoundPrime DEF AdmInv
<1>6. CASE DrainRelease(p)
  <2>1. /\ pc[p] = "drainDrop" /\ adm' = adm
        /\ pc' = [pc EXCEPT ![p] = "drainDropDone"] /\ item' = item /\ fate' = fate /\ registered' = registered
        /\ lock' = lock \ {item[p].rid} /\ stale' \in BOOLEAN
        /\ UNCHANGED <<current, active, waking, awaited, ranAs, teardown, victim>>
    BY <1>3, <1>6 DEF DrainRelease, Release, busVars, histVars, AdmTypes
  <2>2. /\ pc[p] \in Draining /\ "drainDropDone" \in Draining /\ "drainDropDone" \notin InHand
        /\ "drainDropDone" \notin Arriving
    BY <2>1 DEF Draining, InHand, Arriving
  <2>3. Sound(adm', pc', item', fate')
    BY <1>1, <1>3, <2>1, <2>2, SoundHold
  <2>4. Fresh'
    BY <1>1, <1>2, <1>3, <2>1, <2>2, FreshMove
  <2>5. AdmTypes'
    BY <1>3, <2>1 DEF AdmTypes
  <2> QED BY <2>1, <2>3, <2>4, <2>5, SoundPrime DEF AdmInv
<1>7. CASE DrainAgain(p)
  <2>1. /\ pc[p] = "drainDropDone" /\ EnterDrain(p, adm, current) /\ fate' = fate /\ registered' = registered
        /\ UNCHANGED <<lock, stale, current, active, awaited, ranAs, teardown, victim>>
    BY <1>7 DEF DrainAgain, lockVars, histVars, deleteVars
  <2>2. /\ pc[p] \notin Rests /\ Ended(p) \in Places \ Draining /\ Ended(p) # "sched"
        /\ Ended(p) \notin Arriving /\ "drainAcq" \notin Arriving
    BY <1>1, <2>1 DEF Draining, InHand, Places, Arriving, Rests
  <2>3. Sound(adm, [pc EXCEPT ![p] = Ended(p)], item, fate)
    BY <1>1, <1>2, <1>3, <2>2, SoundMove
  <2>4. /\ Sound(adm', pc', item', fate') /\ waking' \subseteq waking
        /\ pc' = [pc EXCEPT ![p] = Ended(p)] \/ pc' = [pc EXCEPT ![p] = "drainAcq"]
    BY <1>2, <2>1, <2>3, SoundEnter
  <2>5. Fresh'
    BY <1>1, <1>2, <1>3, <2>1, <2>2, <2>4, FreshMove
  <2>6. AdmTypes'
    BY <1>3, <2>1, <2>4 DEF AdmTypes
  <2> QED BY <2>1, <2>4, <2>5, <2>6, SoundPrime DEF AdmInv
<1> QED BY <1>4, <1>5, <1>6, <1>7

\* A drain lets go of the prompt in its hands; the prompt may be settled.
LEMMA DrainLetsGo ==
    ASSUME NEW p \in Requests \cup {Retry, WakeTask}, AdmInv, pc[p] \in InHand,
           NEW x \in {Ended(p), "drainDrop"}
    PROVE  LET r == item[p].rid
               a == FinishFollowUpDrain(adm, r)
               pcs == [pc EXCEPT ![p] = x]
           IN  /\ Sound(a, pcs, item, fate) /\ pcs \in [Procs -> Places] /\ pcs[p] = x
               /\ item[p] \in FollowUpItem /\ r \in Requests
               /\ registered => /\ r \notin Booked(a) /\ r # p /\ pc[r] \in Rests /\ pcs[r] \in Rests
                                /\ r \notin adm.dropped => fate[r] = "accepted"
               /\ \A y \in Settled : \A f2 :
                     f2 = [fate EXCEPT ![r] = y] /\ (~registered => f2 = fate)
                        => Sound(a, pcs, item, f2)
<1>1. p \in Procs /\ Ended(p) \in {"idle", "done"}
  BY ProcFacts
<1>2. Sound(adm, pc, item, fate)
  BY DEF AdmInv
<1>3. /\ pc \in [Procs -> Places] /\ item \in [Procs -> FollowUpItem \cup {NoItem}] /\ fate \in [Requests -> Fates]
      /\ item[p] \in FollowUpItem
  BY <1>1, AdmShapes DEF Draining
<1>4. x \in Places \ (InHand \cup {"sched"})
  BY <1>1 DEF Places, InHand
<1> DEFINE r == item[p].rid
           a == FinishFollowUpDrain(adm, r)
           pcs == [pc EXCEPT ![p] = x]
<1>5. /\ Sound(a, pcs, item, fate) /\ item[p] \in FollowUpItem /\ r \in Requests
      /\ registered => /\ r \notin Booked(a) /\ r # p /\ pc[r] \in Rests
                       /\ r \notin adm.dropped => fate[r] = "accepted"
  <2> HIDE DEF InHand, Draining, Rests, r, a, pcs
  <2>1. /\ Sound(FinishFollowUpDrain(adm, item[p].rid), [pc EXCEPT ![p] = x], item, fate)
        /\ item[p] \in FollowUpItem /\ item[p].rid \in Requests
        /\ registered => /\ item[p].rid \notin Booked(FinishFollowUpDrain(adm, item[p].rid))
                         /\ item[p].rid \in adm.draining /\ item[p].rid # p
                         /\ pc[item[p].rid] \in Rests
                         /\ item[p].rid \notin adm.dropped => fate[item[p].rid] = "accepted"
    <3>1. x \in Draining => item[p] \in FollowUpItem
      BY <1>3
    <3>2. p \in Procs /\ item \in [Procs -> FollowUpItem \cup {NoItem}] /\ \A q \in Procs : q # p => item[q] = item[q]
      BY <1>1, <1>3
    <3> QED BY ONLY pc[p] \in InHand, <1>2, <1>4, <3>1, <3>2, SoundFinish
  <2> QED BY <2>1 DEF r, a, pcs
<1>6. /\ pcs \in [Procs -> Places] /\ pcs[p] = x
      /\ registered => pcs[r] \in Rests
  <2>1. Requests \subseteq Procs
    BY ProcFacts
  <2> QED BY <1>1, <1>3, <1>4, <1>5, <2>1
<1> HIDE DEF r, a, pcs
<1>7. ASSUME NEW y \in Settled, NEW f2, f2 = [fate EXCEPT ![r] = y], ~registered => f2 = fate
      PROVE  Sound(a, pcs, item, f2)
  <2>1. \A q \in Requests : q # r => f2[q] = fate[q]
    BY <1>3, <1>7
  <2>2. registered => pcs[r] # "sched"
    BY <1>6 DEF Rests
  <2> QED BY <1>5, <2>1, <2>2, SoundFate
<1> QED BY <1>5, <1>6, <1>7 DEF r, a, pcs

\* A drain that finds its prompt cancelled records it as skipped.
LEMMA DrainSkippedBooks ==
    ASSUME NEW p \in Requests \cup {Retry, WakeTask}, AdmInv, DrainSkipped(p)
    PROVE  AdmInv' /\ [Lifecycle!Next]_fate
<1> DEFINE r == item[p].rid
           a == FinishFollowUpDrain(adm, r)
           pcs == [pc EXCEPT ![p] = "drainDrop"]
<1>1. /\ pc[p] = "drainGot" /\ r \notin adm.dropped /\ adm' = a /\ pc' = pcs
      /\ fate' = [fate EXCEPT ![r] = IF registered THEN "skipped" ELSE @]
      /\ item' = item /\ registered' = registered
      /\ UNCHANGED <<lock, stale, current, active, waking, awaited, ranAs, teardown, victim>>
  BY DEF DrainSkipped, lockVars, deleteVars
<1>2. Fresh /\ AdmTypes /\ fate \in [Requests -> Fates] /\ pc \in [Procs -> Places] /\ Requests \subseteq Procs
  BY AdmShapes, ProcFacts DEF AdmInv
<1>3. pc[p] \in InHand /\ "drainDrop" \notin Arriving /\ \A x \in Rests : x \notin Arriving
  BY <1>1 DEF InHand, Arriving, Rests
<1>4. /\ Sound(a, pcs, item, fate) /\ r \in Requests
      /\ registered => pc[r] \in Rests /\ fate[r] = "accepted"
      /\ \A y \in Settled : \A f2 : f2 = [fate EXCEPT ![r] = y] /\ (~registered => f2 = fate)
                                   => Sound(a, pcs, item, f2)
  BY <1>1, <1>3, DrainLetsGo
<1> HIDE DEF r, a, pcs
<1>5. CASE registered
  <2>1. fate' = [fate EXCEPT ![r] = "skipped"] /\ "skipped" \in Settled /\ "skipped" \in Fates \ {"new", "ready"}
    BY <1>1, <1>5 DEF Settled, Fates
  <2>2. Sound(adm', pc', item', fate')
    BY <1>1, <1>4, <1>5, <2>1
  <2>3. Lifecycle!Next
    BY <1>4, <1>5, <2>1, LifeSteps
  <2>4. pc'[p] \notin Arriving /\ (\A q \in Requests : q # p => pc'[q] = pc[q]) /\ pc[p] # "idle"
    BY <1>1, <1>2, <1>3 DEF pcs, Procs
  <2>5. Fresh'
    BY <1>1, <1>2, <1>3, <1>4, <1>5, <2>1, <2>4, FreshMove
  <2>6. AdmTypes'
    BY <1>1, <1>2, <1>4, <2>1 DEF AdmTypes
  <2> QED BY <1>1, <2>2, <2>3, <2>5, <2>6, SoundPrime DEF AdmInv
<1>6. CASE ~registered
  <2>1. fate' = fate
    BY <1>1, <1>2, <1>6
  <2>2. Sound(adm', pc', item', fate')
    BY <1>1, <1>4, <2>1
  <2>4. pc'[p] \notin Arriving /\ (\A q \in Requests : q # p => pc'[q] = pc[q]) /\ pc[p] # "idle"
    BY <1>1, <1>2, <1>3 DEF pcs, Procs
  <2>5. Fresh'
    BY <1>1, <1>2, <2>1, <2>4, FreshMove
  <2>6. AdmTypes'
    BY <1>1, <1>2, <2>1 DEF AdmTypes
  <2> QED BY <1>1, <2>1, <2>2, <2>5, <2>6, SoundPrime DEF AdmInv
<1> QED BY <1>5, <1>6

\* A drain that could not get the lock in time drops its prompt.
LEMMA DrainGiveUpBooks ==
    ASSUME NEW p \in Requests \cup {Retry, WakeTask}, AdmInv, DrainGiveUp(p)
    PROVE  AdmInv' /\ [Lifecycle!Next]_fate
<1> DEFINE r == item[p].rid
           a == FinishFollowUpDrain(adm, r)
           pcs == [pc EXCEPT ![p] = Ended(p)]
<1>1. /\ pc[p] = "drainDenied" /\ EnterDrain(p, a, current)
      /\ fate' = [fate EXCEPT ![r] = IF registered /\ r \notin adm.dropped THEN "expired" ELSE @]
      /\ registered' = registered
      /\ UNCHANGED <<lock, stale, current, active, awaited, ranAs, teardown, victim>>
  BY DEF DrainGiveUp, lockVars, deleteVars
<1>2. Fresh /\ AdmTypes /\ fate \in [Requests -> Fates] /\ pc \in [Procs -> Places] /\ Requests \subseteq Procs
  BY AdmShapes, ProcFacts DEF AdmInv
<1>3. /\ pc[p] \in InHand /\ Ended(p) \notin Arriving /\ "drainAcq" \notin Arriving
      /\ \A x \in Rests : x \notin Arriving
  BY <1>1, ProcFacts DEF InHand, Arriving, Rests
<1>4. /\ Sound(a, pcs, item, fate) /\ r \in Requests
      /\ registered => pc[r] \in Rests /\ (r \notin adm.dropped => fate[r] = "accepted")
      /\ \A y \in Settled : \A f2 : f2 = [fate EXCEPT ![r] = y] /\ (~registered => f2 = fate)
                                   => Sound(a, pcs, item, f2)
  BY <1>3, DrainLetsGo
<1> HIDE DEF r, a
<1>5. CASE registered /\ r \notin adm.dropped
  <2>1. fate' = [fate EXCEPT ![r] = "expired"] /\ "expired" \in Settled /\ "expired" \in Fates \ {"new", "ready"}
    BY <1>1, <1>5 DEF Settled, Fates
  <2>2. Sound(a, pcs, item, fate')
    BY <1>4, <1>5, <2>1
  <2>3. Lifecycle!Next
    BY <1>4, <1>5, <2>1, LifeSteps
  <2>4. /\ Sound(adm', pc', item', fate') /\ waking' \subseteq waking
        /\ pc' = [pc EXCEPT ![p] = Ended(p)] \/ pc' = [pc EXCEPT ![p] = "drainAcq"]
    BY <1>1, <1>2, <2>2, SoundEnter
  <2>5. pc'[p] \notin Arriving /\ (\A q \in Requests : q # p => pc'[q] = pc[q]) /\ pc[p] # "idle"
    BY <1>1, <1>2, <1>3, <2>4 DEF Procs
  <2>6. Fresh'
    BY <1>1, <1>2, <1>3, <1>4, <1>5, <2>1, <2>5, FreshMove
  <2>7. AdmTypes'
    BY <1>1, <1>2, <1>4, <2>1, <2>4 DEF AdmTypes
  <2> QED BY <1>1, <2>3, <2>4, <2>6, <2>7, SoundPrime DEF AdmInv
<1>6. CASE ~(registered /\ r \notin adm.dropped)
  <2>1. fate' = fate
    BY <1>1, <1>2, <1>6
  <2>2. /\ Sound(adm', pc', item', fate') /\ waking' \subseteq waking
        /\ pc' = [pc EXCEPT ![p] = Ended(p)] \/ pc' = [pc EXCEPT ![p] = "drainAcq"]
    BY <1>1, <1>2, <1>4, <2>1, SoundEnter
  <2>4. pc'[p] \notin Arriving /\ (\A q \in Requests : q # p => pc'[q] = pc[q]) /\ pc[p] # "idle"
    BY <1>1, <1>2, <1>3, <2>2 DEF Procs
  <2>5. Fresh'
    BY <1>1, <1>2, <2>1, <2>4, FreshMove
  <2>6. AdmTypes'
    BY <1>1, <1>2, <2>1, <2>2 DEF AdmTypes
  <2> QED BY <1>1, <2>1, <2>2, <2>5, <2>6, SoundPrime DEF AdmInv
<1> QED BY <1>5, <1>6

\* The popped prompt becomes the next turn.
LEMMA DrainStartBooks ==
    ASSUME NEW p \in Requests \cup {Retry, WakeTask}, AdmInv, DrainStart(p)
    PROVE  AdmInv' /\ [Lifecycle!Next]_fate
<1> DEFINE r == item[p].rid
           a == FinishFollowUpDrain(adm, r)
           pcs1 == [pc EXCEPT ![p] = Ended(p)]
           pcs2 == [pcs1 EXCEPT ![r] = "sched"]
           pcs3 == [pcs2 EXCEPT ![Retry] = "idle"]
           its == ForgetItem(item, Retry)
<1>1. /\ pc[p] = "drainGot" /\ r \notin adm.dropped /\ current' = r /\ active' = r
      /\ ranAs' = [ranAs EXCEPT ![r] = item[p].prov]
      /\ ReturnFromDrain(p, a, r, pcs3, its)
      /\ fate' = fate /\ registered' = registered
      /\ UNCHANGED <<lock, stale, awaited, teardown, victim>>
  BY DEF DrainStart, CancelRetry, lockVars, deleteVars
<1>2. /\ Fresh /\ AdmTypes /\ fate \in [Requests -> Fates] /\ pc \in [Procs -> Places]
      /\ Requests \subseteq Procs /\ Retry \in Procs /\ Retry \notin Requests /\ p \in Procs
      /\ item \in [Procs -> FollowUpItem \cup {NoItem}]
      /\ Ended(p) \in {"idle", "done"} /\ (p \in Requests => Ended(p) = "done")
  BY AdmShapes, ProcFacts DEF AdmInv
<1>3. /\ pc[p] \in InHand /\ \A x \in {"idle", "done", "sched", "drainAcq"} : x \notin Arriving
      /\ \A x \in Rests : x \notin Arriving
      /\ \A x \in {"idle", "done", "sched"} : x \in Places /\ x \notin Draining
      /\ "done" \notin Rests
  BY <1>1 DEF InHand, Arriving, Rests, Draining, Places
<1>4. /\ Sound(a, pcs1, item, fate) /\ r \in Requests /\ pcs1 \in [Procs -> Places] /\ pcs1[p] = Ended(p)
      /\ item[p] \in FollowUpItem
      /\ registered => r \notin Booked(a) /\ r # p /\ fate[r] = "accepted"
  BY <1>1, <1>3, DrainLetsGo
<1> HIDE DEF r, a, pcs1, Arriving, Rests, Draining, InHand, Places
<1>5. Sound(a, pcs2, item, fate)
  <2>1. "sched" \in Places \ Draining
    BY <1>3
  <2> QED BY <1>4, <2>1, SoundSched
<1>6. /\ pcs2 \in [Procs -> Places] /\ pcs3 \in [Procs -> Places] /\ pcs3[Retry] = "idle"
      /\ \A q \in Procs : q # Retry => pcs3[q] = IF q = r THEN "sched" ELSE IF q = p THEN Ended(p) ELSE pc[q]
  BY <1>2, <1>3, <1>4 DEF pcs1
<1>7. its \in [Procs -> FollowUpItem \cup {NoItem}] /\ \A q \in Procs : q # Retry => its[q] = item[q]
  BY <1>2 DEF ForgetItem
<1> HIDE DEF its, pcs2
<1>8. Sound(a, pcs3, its, fate)
  <2>1. "idle" \in Places \ Draining /\ "idle" # "sched"
    BY <1>3
  <2> QED BY <1>2, <1>5, <1>7, <2>1, SoundMove
<1> HIDE DEF pcs3
<1>9. pcs3[p] \notin Draining /\ (registered => pcs3[p] # "sched" /\ (p \in Requests => pcs3[p] \notin Rests))
  <2>1. CASE p = Retry
    BY <2>1, <1>2, <1>3, <1>6
  <2>2. CASE p # Retry
    BY <2>2, <1>2, <1>3, <1>4, <1>6
  <2> QED BY <2>1, <2>2
<1>10. /\ Sound(adm', pc', item', fate) /\ waking' \subseteq waking
       /\ pc' = pcs3 \/ pc' = [pcs3 EXCEPT ![p] = "drainAcq"]
  BY <1>1, <1>2, <1>8, <1>9, SoundReturn
<1>11. \A q \in Procs : /\ q # p /\ q # r /\ q # Retry => pc'[q] = pc[q]
                        /\ pc'[q] \in {pc[q], "idle", "done", "sched", "drainAcq"}
  BY <1>2, <1>6, <1>10
<1>12. Fresh'
  <2>1. \A q \in Requests : pc'[q] \in Arriving => pc[q] \in Arriving /\ fate'[q] = fate[q]
    BY <1>1, <1>2, <1>3, <1>11
  <2>2. ASSUME registered, NEW w \in WakeReqs, fate'[w] \in {"new", "ready"}, pc[w] = "idle"
        PROVE  pc'[w] = "idle"
    <3>1. w \in Requests /\ w # r /\ w # p /\ w # Retry
      BY <1>1, <1>2, <1>4, <2>2, ProcFacts
    <3> QED BY <1>2, <1>11, <2>2, <3>1
  <2> QED BY <1>1, <1>2, <2>1, <2>2, FreshKept
<1>13. item[p].prov \in Provenance
  BY <1>4 DEF FollowUpItem
<1>14. AdmTypes'
  <2>1. ranAs' \in [Requests -> Provenance \cup {"none"}]
    BY <1>1, <1>2, <1>13 DEF AdmTypes
  <2> QED BY <1>1, <1>2, <1>4, <1>10, <2>1 DEF AdmTypes
<1> QED BY <1>1, <1>10, <1>12, <1>14, SoundPrime DEF AdmInv

\* The lock is held elsewhere: the prompt goes back to the front.
LEMMA DrainRequeueBooks ==
    ASSUME NEW p \in Requests \cup {Retry, WakeTask}, AdmInv, DrainRequeue(p)
    PROVE  AdmInv' /\ [Lifecycle!Next]_fate
<1> DEFINE r == item[p].rid
           x == Requeued(item[p])
           a == FinishFollowUpDrain(adm, r)
           b == [a EXCEPT !.followUp = <<x>> \o @]
           pcs1 == [pc EXCEPT ![p] = Ended(p)]
           pcs2 == ScheduleRetry(pcs1, p)
<1>2. /\ Fresh /\ AdmTypes /\ fate \in [Requests -> Fates] /\ pc \in [Procs -> Places]
      /\ Requests \subseteq Procs /\ Retry \in Procs /\ Retry \notin Requests /\ p \in Procs
      /\ item \in [Procs -> FollowUpItem \cup {NoItem}]
      /\ Ended(p) \in {"idle", "done"} /\ (p \in Requests => Ended(p) = "done")
  BY AdmShapes, ProcFacts DEF AdmInv
<1>0. pc[p] = "drainDenied" /\ item[p] \in FollowUpItem
  BY <1>2, AdmShapes DEF DrainRequeue, Draining, InHand
<1>a. x \in FollowUpItem /\ x.rid = r
  BY <1>0 DEF Requeued, FollowUpItem, Provenance
<1>1. /\ IF r \in adm.dropped THEN EnterDrain(p, a, current)
                              ELSE ReturnFromDrain(p, b, current, pcs2, item)
      /\ fate' = fate /\ registered' = registered
      /\ UNCHANGED <<lock, stale, current, active, awaited, ranAs, teardown, victim>>
  <2>1. RequeueFollowUpFront(adm, x) = IF r \in adm.dropped THEN a ELSE b
    BY <1>a DEF RequeueFollowUpFront
  <2> HIDE DEF a, b, pcs2
  <2>2. /\ IF r \in adm.dropped THEN EnterDrain(p, RequeueFollowUpFront(adm, x), current)
                              ELSE ReturnFromDrain(p, RequeueFollowUpFront(adm, x), current, pcs2, item)
        /\ fate' = fate /\ registered' = registered
        /\ UNCHANGED <<lock, stale, current, active, awaited, ranAs, teardown, victim>>
    BY DEF DrainRequeue, lockVars, deleteVars, histVars, pcs2
  <2> QED BY <2>1, <2>2
<1>3. /\ pc[p] \in InHand /\ \A y \in {"idle", "done", "sleep", "drainAcq"} : y \notin Arriving
      /\ \A y \in {"idle", "done", "sleep"} : y \in Places /\ y \notin Draining
      /\ "done" \notin Rests /\ "sleep" \notin Rests
  BY <1>0 DEF InHand, Arriving, Rests, Draining, Places
<1>4. /\ Sound(a, pcs1, item, fate) /\ r \in Requests /\ pcs1 \in [Procs -> Places] /\ pcs1[p] = Ended(p)
      /\ registered => r \notin Booked(a) /\ pcs1[r] \in Rests /\ (r \notin adm.dropped => fate[r] = "accepted")
  BY <1>3, DrainLetsGo
<1> HIDE DEF r, a, pcs1, x, Arriving, Rests, Draining, InHand, Places
<1>5. /\ Sound(adm', pc', item', fate) /\ waking' \subseteq waking
      /\ \A q \in Procs : q # p /\ q # Retry => pc'[q] = pc[q]
      /\ pc'[p] \in {"idle", "done", "sleep", "drainAcq"}
  <2>1. CASE r \in adm.dropped
    <3>1. /\ Sound(adm', pc', item', fate) /\ waking' \subseteq waking
          /\ pc' = [pc EXCEPT ![p] = Ended(p)] \/ pc' = [pc EXCEPT ![p] = "drainAcq"]
      BY <1>1, <1>2, <1>4, <2>1, SoundEnter DEF pcs1
    <3> QED BY <1>2, <3>1
  <2>2. CASE r \notin adm.dropped
    <3>1. Sound(b, pcs1, item, fate)
      BY <1>a, <1>4, <2>2, SoundEnqueue
    <3>2. pcs2 = pcs1 \/ pcs2 = [pcs1 EXCEPT ![Retry] = "sleep"]
      BY DEF ScheduleRetry
    <3>3. \A q \in Procs : /\ pcs2[q] \in {pcs1[q], "sleep"}
                           /\ q # Retry => pcs2[q] = pcs1[q]
      BY <1>2, <1>4, <3>2
    <3> HIDE DEF b
    <3>4. Sound(b, pcs2, item, fate)
      <4>1. "sleep" \in Places \ Draining /\ "sleep" # "sched"
        BY <1>3
      <4>2. Sound(b, [pcs1 EXCEPT ![Retry] = "sleep"], item, fate)
        BY <1>2, <3>1, <4>1, SoundMove
      <4> QED BY <3>1, <3>2, <4>2
    <3> HIDE DEF pcs2
    <3>5. pcs2[p] \notin Draining /\ pcs2[p] # "sched" /\ (p \in Requests => pcs2[p] \notin Rests)
      BY <1>2, <1>3, <1>4, <3>3
    <3>6. /\ Sound(adm', pc', item', fate) /\ waking' \subseteq waking
          /\ pc' = pcs2 \/ pc' = [pcs2 EXCEPT ![p] = "drainAcq"]
      BY <1>1, <1>2, <2>2, <3>4, <3>5, SoundReturn
    <3>7. pcs2 \in [Procs -> Places]
      BY <3>4 DEF Sound, Shapes
    <3>8. \A q \in Procs : q # p => pcs1[q] = pc[q]
      BY <1>2 DEF pcs1
    <3> QED BY <1>2, <1>4, <3>3, <3>6, <3>7, <3>8
  <2> QED BY <2>1, <2>2
<1>6. Fresh'
  <2>1. \A q \in Requests : q # p => pc'[q] = pc[q]
    BY <1>2, <1>5
  <2>2. pc'[p] \notin Arriving /\ pc[p] # "idle"
    BY <1>0, <1>3, <1>5
  <2> QED BY <1>1, <1>2, <2>1, <2>2, FreshMove
<1>7. AdmTypes'
  BY <1>1, <1>2, <1>5 DEF AdmTypes
<1> QED BY <1>1, <1>5, <1>6, <1>7, SoundPrime DEF AdmInv

\* A step in which one process moves on, and nothing else changes the books.
LEMMA MoveBooks ==
    ASSUME AdmInv, NEW p \in Procs, NEW x \in Places \ Draining,
           pc' = [pc EXCEPT ![p] = x], adm' = adm, fate' = fate, registered' = registered,
           registered => x # "sched" /\ (p \in Requests => pc[p] \notin Rests),
           p \in Requests /\ x \in Arriving => pc[p] \in Arriving,
           item' \in [Procs -> FollowUpItem \cup {NoItem}], \A q \in Procs : q # p => item'[q] = item[q],
           AdmTypes'
    PROVE  AdmInv' /\ [Lifecycle!Next]_fate
<1>1. /\ Sound(adm, pc, item, fate) /\ Fresh /\ pc \in [Procs -> Places]
      /\ Requests \subseteq Procs /\ WakeReqs \subseteq Requests
  BY AdmShapes, ProcFacts DEF AdmInv
<1>2. Sound(adm', pc', item', fate')
  BY <1>1, SoundMove
<1>3. \A q \in Procs : pc'[q] = IF q = p THEN x ELSE pc[q]
  BY <1>1
<1>4. Fresh'
  <2>1. \A q \in Requests : pc'[q] \in Arriving => pc[q] \in Arriving
    BY <1>1, <1>3
  <2>2. registered => \A w \in WakeReqs : pc[w] = "idle" => pc'[w] = "idle"
    BY <1>1, <1>3 DEF Rests
  <2> QED BY <1>1, <2>1, <2>2, FreshKept
<1> QED BY <1>2, <1>4, SoundPrime DEF AdmInv

\* A step that leaves the books alone.
LEMMA StillBooks ==
    ASSUME AdmInv, UNCHANGED <<registered, adm, pc, item, fate>>, AdmTypes'
    PROVE  AdmInv' /\ [Lifecycle!Next]_fate
BY DEF AdmInv, Fresh, Sound, Shapes

\* A request that is new is not booked, and so is one that is scheduled.
LEMMA NotBooked ==
    ASSUME AdmInv, registered, NEW r \in Requests
    PROVE  /\ fate[r] \in {"new", "ready"} \/ pc[r] \notin Rests => r \notin Booked(adm)
           /\ pc[r] = "sched" => fate[r] = "accepted"
<1>1. Fated(adm, pc, fate)
  BY DEF AdmInv, Sound, Books
<1> QED BY <1>1 DEF Fated

\* Types of the variables that most steps leave alone.
LEMMA LockTypes ==
    ASSUME AdmTypes, NEW r \in Requests \cup Foreign
    PROVE  /\ {r} \in {{}} \cup {{x} : x \in Requests \cup Foreign}
           /\ lock \ {r} \in {{}} \cup {{x} : x \in Requests \cup Foreign}
BY DEF AdmTypes

\* A handler that waits for the lock, or starts, keeps the books.
LEMMA HandleBooks ==
    ASSUME NEW r \in Requests, AdmInv, Acquire(r) \/ Got(r) \/ GotBadBody(r) \/ Busy(r)
    PROVE  AdmInv' /\ [Lifecycle!Next]_fate
<1>1. /\ Sound(adm, pc, item, fate) /\ Fresh /\ AdmTypes
      /\ pc \in [Procs -> Places] /\ item \in [Procs -> FollowUpItem \cup {NoItem}] /\ fate \in [Requests -> Fates]
      /\ Requests \subseteq Procs /\ WakeReqs \subseteq Requests
  BY AdmShapes, ProcFacts DEF AdmInv
<1>2. pc[r] \in Arriving /\ pc[r] # "sched" /\ pc[r] \notin Rests
  BY DEF Acquire, Got, GotBadBody, Busy, Arriving, Rests
<1>3. fate[r] = "new" /\ r \notin WakeReqs
  BY <1>1, <1>2 DEF Fresh
<1>4. registered => r \notin Booked(adm)
  BY <1>2, NotBooked
<1>5. CASE Acquire(r)
  <2>1. PICK x \in {"got", "denied"} : pc' = [pc EXCEPT ![r] = x]
    BY <1>5 DEF Acquire, TryAcquire
  <2>2. /\ UNCHANGED <<registered, current, active, adm, item, waking, awaited, fate, ranAs,
                       teardown, victim>>
        /\ (lock' = {r} /\ stale' = FALSE) \/ UNCHANGED <<lock, stale>>
    BY <1>5 DEF Acquire, TryAcquire, lockVars, busVars, histVars
  <2>3. x \in Places \ Draining /\ x # "sched" /\ x \in Arriving
    BY DEF Places, Draining, InHand, Arriving
  <2>4. AdmTypes'
    BY <1>1, <2>2, LockTypes DEF AdmTypes
  <2> QED BY <1>1, <1>2, <2>1, <2>2, <2>3, <2>4, MoveBooks
<1>6. ASSUME NEW y \in {"refused", "accepted", "cleared"}, NEW x \in {"sched", "done"},
             pc' = [pc EXCEPT ![r] = x], fate' = [fate EXCEPT ![r] = y], registered /\ x = "sched" => y = "accepted",
             UNCHANGED <<registered, adm, item>>, AdmTypes'
      PROVE  AdmInv' /\ [Lifecycle!Next]_fate
  <2>1. x \in Places \ Draining /\ x \notin Arriving
    BY DEF Places, Draining, InHand, Arriving
  <2>2. \A q \in Requests : fate'[q] = IF q = r THEN y ELSE fate[q]
    BY <1>1, <1>6
  <2>3. Sound(adm, pc, item, fate')
    BY <1>1, <1>2, <1>4, <2>2, SoundFate
  <2>4. Sound(adm', pc', item', fate')
    BY <1>4, <1>6, <2>1, <2>2, <2>3, SoundSched
  <2>5. \A q \in Procs : pc'[q] = IF q = r THEN x ELSE pc[q]
    BY <1>1, <1>6
  <2>6. Fresh'
    <3>1. \A q \in Requests : pc'[q] \in Arriving => pc[q] \in Arriving /\ fate'[q] = fate[q]
      BY <1>1, <2>1, <2>2, <2>5
    <3>2. registered => \A w \in WakeReqs : fate'[w] \in {"new", "ready"} =>
                            fate[w] \in {"new", "ready"} /\ (pc[w] = "idle" => pc'[w] = "idle")
      BY <1>1, <1>3, <2>2, <2>5
    <3> QED BY <1>1, <1>6, <3>1, <3>2, FreshKept
  <2>7. Lifecycle!Next
    BY <1>3, <1>6, LifeSteps
  <2> QED BY <1>6, <2>4, <2>6, <2>7, SoundPrime DEF AdmInv
<1>7. CASE Got(r)
  <2> DEFINE y == IF registered THEN "accepted" ELSE "cleared"
  <2>1. /\ pc' = [pc EXCEPT ![r] = "sched"] /\ fate' = [fate EXCEPT ![r] = y]
        /\ ranAs' = [ranAs EXCEPT ![r] = "human"]
        /\ current' \in {current, r} /\ active' \in {active, r}
        /\ UNCHANGED <<registered, adm, item, lock, stale, waking, awaited, teardown, victim>>
    BY <1>7 DEF Got, lockVars, deleteVars
  <2>2. y \in {"accepted", "cleared"} /\ (registered => y = "accepted") /\ y \in Fates
    BY DEF Fates
  <2> HIDE DEF y
  <2>3. fate' \in [Requests -> Fates] /\ ranAs' \in [Requests -> Provenance \cup {"none"}]
    BY <1>1, <2>1, <2>2 DEF AdmTypes, Provenance
  <2>4. AdmTypes'
    BY <1>1, <2>1, <2>3 DEF AdmTypes
  <2> QED BY <1>6, <2>1, <2>2, <2>4
<1>8. CASE GotBadBody(r) \/ Busy(r)
  <2>1. /\ pc' = [pc EXCEPT ![r] = "done"] /\ fate' = [fate EXCEPT ![r] = "refused"]
        /\ UNCHANGED <<registered, current, active, adm, item, lock, stale, waking, awaited, ranAs,
                       teardown, victim>>
    BY <1>8 DEF GotBadBody, Busy, lockVars, busVars
  <2>2. fate' \in [Requests -> Fates]
    BY <1>1, <2>1 DEF Fates
  <2>3. AdmTypes'
    BY <1>1, <2>1, <2>2 DEF AdmTypes
  <2> QED BY <1>6, <2>1, <2>3
<1> QED BY <1>5, <1>7, <1>8

\* A prompt sent to a busy session.
LEMMA QueueBusyBooks ==
    ASSUME NEW r \in Requests, AdmInv, QueueBusy(r)
    PROVE  AdmInv' /\ [Lifecycle!Next]_fate
<1>1. /\ Sound(adm, pc, item, fate) /\ Fresh /\ AdmTypes
      /\ pc \in [Procs -> Places] /\ item \in [Procs -> FollowUpItem \cup {NoItem}] /\ fate \in [Requests -> Fates]
      /\ Requests \subseteq Procs /\ WakeReqs \subseteq Requests /\ Retry \in Procs /\ Retry \notin Requests
  BY AdmShapes, ProcFacts DEF AdmInv
<1>2. /\ pc[r] \in Arriving /\ pc[r] # "sched" /\ pc[r] \notin Rests
      /\ UNCHANGED <<registered, current, active, item, lock, stale, waking, awaited, ranAs,
                     teardown, victim>>
  BY DEF QueueBusy, Arriving, Rests, lockVars, deleteVars
<1>3. fate[r] = "new" /\ r \notin WakeReqs
  BY <1>1, <1>2 DEF Fresh
<1>4. registered => r \notin Booked(adm)
  BY <1>2, NotBooked
<1>5. PICK y \in {"refused", "accepted", "cleared"} :
          /\ fate' = [fate EXCEPT ![r] = y]
          /\ \/ pc' = [pc EXCEPT ![r] = "done"] /\ adm' = adm
             \/ /\ adm' = EnqueueFollowUp(adm, NewFollowUp(r, "human")) /\ (registered => y = "accepted")
                /\ pc' = ScheduleRetry([pc EXCEPT ![r] = "queued"], r)
  <2>1. CASE FollowUpFull(adm)
    BY <2>1 DEF QueueBusy
  <2>2. CASE ~FollowUpFull(adm)
    BY <2>2 DEF QueueBusy
  <2> QED BY <2>1, <2>2
<1>6. \A q \in Requests : fate'[q] = IF q = r THEN y ELSE fate[q]
  BY <1>1, <1>5
<1>7. Sound(adm, pc, item, fate')
  BY <1>1, <1>2, <1>4, <1>6, SoundFate
<1>8. /\ \A x \in {"done", "queued", "sleep"} : x \in Places \ Draining /\ x \notin Arriving /\ x # "sched"
      /\ "queued" \in Rests
  BY DEF Places, Draining, InHand, Arriving, Rests
<1>9. /\ Sound(adm', pc', item', fate') /\ pc'[r] \in {"done", "queued"}
      /\ \A q \in Requests : q # r => pc'[q] = pc[q]
  <2>1. CASE pc' = [pc EXCEPT ![r] = "done"] /\ adm' = adm
    <3>1. Sound(adm', pc', item, fate')
      BY <1>4, <1>7, <1>8, <2>1, SoundSched
    <3> QED BY <1>1, <1>2, <2>1, <3>1
  <2>2. CASE /\ adm' = EnqueueFollowUp(adm, NewFollowUp(r, "human")) /\ (registered => y = "accepted")
             /\ pc' = ScheduleRetry([pc EXCEPT ![r] = "queued"], r)
    <3> DEFINE pcs == [pc EXCEPT ![r] = "queued"]
               x == NewFollowUp(r, "human")
    <3>1. Sound(adm, pcs, item, fate')
      BY <1>4, <1>7, <1>8, SoundSched
    <3>2. pcs[r] = "queued" /\ pcs \in [Procs -> Places] /\ \A q \in Procs : q # r => pcs[q] = pc[q]
      BY <1>1, <1>8
    <3>3. pc' = pcs \/ pc' = [pcs EXCEPT ![Retry] = "sleep"]
      BY <2>2 DEF ScheduleRetry
    <3>4. x \in FollowUpItem /\ x.rid = r
      BY DEF NewFollowUp, FollowUpItem, Provenance
    <3> HIDE DEF pcs, x, Rests
    <3>5. registered => x.rid \notin Booked(adm) /\ pcs[x.rid] \in Rests /\ fate'[x.rid] = "accepted"
      BY <1>4, <1>6, <1>8, <2>2, <3>2, <3>4
    <3>6. Sound(adm', pcs, item, fate')
      BY <2>2, <3>1, <3>4, <3>5, SoundEnqueue DEF x
    <3>7. Sound(adm', [pcs EXCEPT ![Retry] = "sleep"], item, fate')
      BY <1>1, <1>8, <3>6, SoundMove
    <3>8. \A q \in Requests : pc'[q] = pcs[q]
      BY <1>1, <3>2, <3>3
    <3> QED BY <1>1, <1>2, <3>2, <3>3, <3>6, <3>7, <3>8
  <2> QED BY <1>5, <2>1, <2>2
<1>10. Fresh'
  <2>1. \A q \in Requests : pc'[q] \in Arriving => pc[q] \in Arriving /\ fate'[q] = fate[q]
    BY <1>6, <1>8, <1>9
  <2>2. registered => \A w \in WakeReqs : fate'[w] \in {"new", "ready"} =>
                            fate[w] \in {"new", "ready"} /\ (pc[w] = "idle" => pc'[w] = "idle")
    BY <1>1, <1>3, <1>6, <1>9
  <2> QED BY <1>1, <1>2, <2>1, <2>2, FreshKept
<1>11. fate' \in [Requests -> Fates] /\ Lifecycle!Next
  <2>1. fate' \in [Requests -> Fates]
    BY <1>1, <1>5 DEF Fates
  <2>2. Lifecycle!Next
    BY <1>3, <1>5, LifeSteps
  <2> QED BY <2>1, <2>2
<1>12. AdmTypes'
  BY <1>1, <1>2, <1>11 DEF AdmTypes
<1> QED BY <1>2, <1>9, <1>10, <1>11, <1>12, SoundPrime DEF AdmInv

\* A turn begins, ends and gives its lock back.
LEMMA TurnBooks ==
    ASSUME NEW r \in Requests \cup Foreign, AdmInv,
           \/ r \in Requests /\ (TurnBegin(r) \/ TickReturns(r))
           \/ TurnEnd(r) \/ TurnRelease(r)
    PROVE  AdmInv' /\ [Lifecycle!Next]_fate
<1>1. /\ Sound(adm, pc, item, fate) /\ Fresh /\ AdmTypes
      /\ pc \in [Procs -> Places] /\ item \in [Procs -> FollowUpItem \cup {NoItem}] /\ fate \in [Requests -> Fates]
      /\ Requests \subseteq Procs /\ WakeReqs \subseteq Requests /\ r \in Procs
  BY AdmShapes, ProcFacts DEF AdmInv, Procs
<1>2. \A x \in {"turn", "rel", "relDone", "done"} :
         x \in Places \ Draining /\ x \notin Arriving /\ x # "sched" /\ x \notin Rests
  BY DEF Places, Draining, InHand, Arriving, Rests
<1>3. pc[r] \in {"sched", "turn", "rel", "relDone"} /\ pc[r] \notin Rests /\ pc[r] \notin Arriving
  BY DEF TurnBegin, TickReturns, TurnEnd, TurnRelease, Rests, Arriving
<1>4. ASSUME r \in Requests, TurnBegin(r) PROVE AdmInv' /\ [Lifecycle!Next]_fate
  <2>1. /\ pc[r] = "sched" /\ UNCHANGED <<registered, current, active, adm, item, lock, stale,
                                          waking, awaited, ranAs, teardown, victim>>
        /\ fate' = [fate EXCEPT ![r] = IF registered THEN "started" ELSE @]
    BY <1>4 DEF TurnBegin, lockVars, busVars
  <2>2. PICK x \in {"turn", "rel"} : pc' = [pc EXCEPT ![r] = x]
    BY <1>4 DEF TurnBegin
  <2>3. CASE ~registered
    <3>1. fate' = fate
      BY <1>1, <2>1, <2>3
    <3>2. AdmTypes'
      BY <1>1, <2>1, <3>1 DEF AdmTypes
    <3> QED BY <1>1, <1>2, <1>3, <2>1, <2>2, <2>3, <3>1, <3>2, MoveBooks
  <2>4. CASE registered
    <3>1. /\ fate' = [fate EXCEPT ![r] = "started"] /\ "started" \in Settled
          /\ "started" \in Fates \ {"new", "ready"}
      BY <2>1, <2>4 DEF Settled, Fates
    <3>2. r \notin Booked(adm) /\ fate[r] = "accepted"
      BY <1>3, <1>4, <2>1, <2>4, NotBooked
    <3>3. Lifecycle!Next
      BY <1>4, <3>1, <3>2, LifeSteps
    <3>4. Sound(adm, pc', item, fate)
      BY <1>1, <1>2, <1>3, <2>2, SoundMove
    <3>5. \A q \in Requests : fate'[q] = IF q = r THEN "started" ELSE fate[q]
      BY <1>1, <3>1
    <3>6. pc'[r] # "sched" /\ pc'[r] \notin Arriving /\ \A q \in Requests : q # r => pc'[q] = pc[q]
      BY <1>1, <1>2, <2>2
    <3>7. Sound(adm', pc', item', fate')
      <4>1. Sound(adm, pc', item, fate')
        <5>1. \A q \in Requests : q # r => fate'[q] = fate[q]
          BY <3>5
        <5>2. r \notin Booked(adm) /\ pc'[r] # "sched"
          BY <3>2, <3>6
        <5> QED BY <3>4, <5>1, <5>2, SoundFate
      <4> QED BY <2>1, <4>1
    <3>8. pc[r] # "idle"
      BY <2>1
    <3>9. Fresh'
      BY <1>1, <1>3, <1>4, <2>1, <3>1, <3>6, <3>8, FreshMove
    <3>10. AdmTypes'
      <4>1. fate' \in [Requests -> Fates]
        BY <1>1, <3>1
      <4> QED BY <1>1, <2>1, <4>1 DEF AdmTypes
    <3> QED BY <2>1, <3>3, <3>7, <3>9, <3>10, SoundPrime DEF AdmInv
  <2> QED BY <2>3, <2>4
<1>5. CASE r \in Requests /\ TickReturns(r)
  <2>1. /\ pc' = [pc EXCEPT ![r] = "done"] /\ current' \in {current, NoReq}
        /\ UNCHANGED <<registered, active, adm, item, fate, lock, stale, waking, awaited, ranAs,
                       teardown, victim>>
    BY <1>5 DEF TickReturns, CurrentAfter, lockVars, histVars
  <2>2. AdmTypes'
    BY <1>1, <2>1 DEF AdmTypes
  <2> QED BY <1>1, <1>2, <1>3, <2>1, <2>2, MoveBooks
<1>6. CASE TurnEnd(r)
  <2>1. /\ pc' = [pc EXCEPT ![r] = "rel"]
        /\ UNCHANGED <<registered, current, active, adm, item, fate, lock, stale, waking, awaited,
                       ranAs, teardown, victim>>
    BY <1>6 DEF TurnEnd, lockVars, busVars, histVars
  <2>2. AdmTypes'
    BY <1>1, <2>1 DEF AdmTypes
  <2> QED BY <1>1, <1>2, <1>3, <2>1, <2>2, MoveBooks
<1>7. CASE TurnRelease(r)
  <2>1. PICK x \in {"done", "relDone"} : pc' = [pc EXCEPT ![r] = x]
    BY <1>7 DEF TurnRelease
  <2>2. /\ lock' = lock \ {r} /\ stale' \in BOOLEAN
        /\ UNCHANGED <<registered, current, active, adm, item, fate, waking, awaited, ranAs,
                       teardown, victim>>
    BY <1>1, <1>7 DEF TurnRelease, Release, busVars, histVars, AdmTypes
  <2>3. AdmTypes'
    BY <1>1, <2>2, LockTypes DEF AdmTypes
  <2> QED BY <1>1, <1>2, <1>3, <2>1, <2>2, <2>3, MoveBooks
<1> QED BY <1>4, <1>5, <1>6, <1>7

\* A harness wake is queued, and popped at once by the drain that follows.
LEMMA WakeBooks ==
    ASSUME NEW p \in Procs, NEW w \in WakeReqs, NEW cur, AdmInv,
           pc[p] \notin Arriving, registered /\ p \in Requests => pc[p] \notin Rests,
           CanWake(w, cur), PopInto(p, Woken(w), pc, item),
           fate' = [fate EXCEPT ![w] = IF registered THEN "accepted" ELSE "cleared"],
           UNCHANGED <<registered, lock, stale, active, awaited, ranAs, teardown, victim>>,
           current' \in Requests \cup {NoReq}, waking' \subseteq Requests
    PROVE  AdmInv' /\ [Lifecycle!Next]_fate
<1>1. /\ Sound(adm, pc, item, fate) /\ Fresh /\ AdmTypes
      /\ pc \in [Procs -> Places] /\ fate \in [Requests -> Fates]
      /\ Requests \subseteq Procs /\ WakeReqs \subseteq Requests
  BY AdmShapes, ProcFacts DEF AdmInv
<1>2. PICK y \in {"accepted", "cleared"} :
          fate' = [fate EXCEPT ![w] = y] /\ (registered => y = "accepted") /\ y \in Fates
  BY DEF Fates
<1>3. fate[w] = "ready" /\ (registered => pc[w] = "idle" /\ w \notin Booked(adm))
  <2>1. fate[w] = "ready"
    BY DEF CanWake
  <2>2. registered => pc[w] = "idle"
    BY <1>1, <2>1 DEF Fresh
  <2>3. registered => w \notin Booked(adm)
    BY <1>1, <2>1, NotBooked
  <2> QED BY <2>1, <2>2, <2>3
<1>4. \A q \in Requests : fate'[q] = IF q = w THEN y ELSE fate[q]
  BY <1>1, <1>2
<1>5. Sound(adm, pc, item, fate')
  <2>1. registered => pc[w] # "sched"
    BY <1>3
  <2> QED BY <1>1, <1>3, <1>4, <2>1, SoundFate
<1> DEFINE x == NewFollowUp(w, "harness")
           a == EnqueueFollowUp(adm, x)
<1>6. x \in FollowUpItem /\ x.rid = w
  BY <1>1 DEF NewFollowUp, FollowUpItem, Provenance
<1> HIDE DEF x
<1>7. Sound(a, pc, item, fate') /\ a.followUp # <<>>
  <2>1. registered => x.rid \notin Booked(adm) /\ pc[x.rid] \in Rests /\ fate'[x.rid] = "accepted"
    BY <1>1, <1>2, <1>3, <1>4, <1>6 DEF Rests
  <2> QED BY <1>5, <1>6, <2>1, SoundEnqueue
<1>8. /\ adm' = PopFollowUp(a) /\ item' = [item EXCEPT ![p] = Head(a.followUp)]
      /\ pc' = [pc EXCEPT ![p] = "drainAcq"]
  BY DEF PopInto, Woken, a, x
<1> HIDE DEF a
<1>9. Sound(adm', pc', item', fate')
  BY <1>7, <1>8, SoundPop
<1>10. Fresh'
  <2>1. "drainAcq" \notin Arriving /\ \A q \in Procs : pc'[q] = IF q = p THEN "drainAcq" ELSE pc[q]
    BY <1>1, <1>8 DEF Arriving
  <2>2. \A q \in Requests : pc[q] \in Arriving => q # w
    BY <1>1, <1>3 DEF Fresh
  <2>3. \A q \in Requests : pc'[q] \in Arriving => pc[q] \in Arriving /\ fate'[q] = fate[q]
    BY <1>1, <1>4, <2>1, <2>2
  <2>4. registered => \A v \in WakeReqs : fate'[v] \in {"new", "ready"} =>
                            fate[v] \in {"new", "ready"} /\ (pc[v] = "idle" => pc'[v] = "idle")
    <3>1. registered => \A v \in WakeReqs : pc[v] = "idle" => v # p
      BY <1>1 DEF Rests
    <3> QED BY <1>1, <1>2, <1>4, <2>1, <3>1
  <2> QED BY <1>1, <2>3, <2>4, FreshKept
<1>11. Lifecycle!Next
  BY <1>1, <1>2, <1>3, LifeSteps
<1>12. AdmTypes'
  <2>1. fate' \in [Requests -> Fates]
    BY <1>1, <1>2
  <2> QED BY <1>1, <2>1 DEF AdmTypes
<1> QED BY <1>9, <1>10, <1>11, <1>12, SoundPrime DEF AdmInv

\* A drain is called: at the end of a turn, by the retry task.
LEMMA EnterBooks ==
    ASSUME NEW p \in Requests \cup {Retry, WakeTask}, NEW a, NEW cur, AdmInv,
           pc[p] \notin Arriving, registered /\ p \in Requests => pc[p] \notin Rests,
           a = adm \/ a = RestorePromotedSteers(adm), EnterDrain(p, a, cur),
           UNCHANGED <<registered, fate, lock, stale, active, awaited, ranAs, teardown, victim>>,
           current' \in Requests \cup {NoReq}
    PROVE  AdmInv' /\ [Lifecycle!Next]_fate
<1>1. /\ Sound(adm, pc, item, fate) /\ Fresh /\ AdmTypes
      /\ pc \in [Procs -> Places] /\ item \in [Procs -> FollowUpItem \cup {NoItem}] /\ fate \in [Requests -> Fates]
      /\ Requests \subseteq Procs /\ WakeReqs \subseteq Requests /\ p \in Procs
      /\ Ended(p) \in {"idle", "done"}
  BY AdmShapes, ProcFacts DEF AdmInv
<1>2. \A x \in {"idle", "done", "drainAcq"} : x \notin Arriving
  BY DEF Arriving
<1>3. Ended(p) \in Places \ Draining /\ Ended(p) # "sched"
  BY <1>1 DEF Places, Draining, InHand
<1>4. Sound(a, pc, item, fate)
  BY <1>1, SoundRestore
<1>5. Sound(a, [pc EXCEPT ![p] = Ended(p)], item, fate)
  BY <1>1, <1>3, <1>4, SoundMove
<1>6. /\ Sound(adm', pc', item', fate') /\ waking' \subseteq waking
      /\ pc' = [pc EXCEPT ![p] = Ended(p)] \/ pc' = [pc EXCEPT ![p] = "drainAcq"]
  BY <1>1, <1>5, SoundEnter
<1>7. pc'[p] \notin Arriving /\ (\A q \in Requests : q # p => pc'[q] = pc[q])
  BY <1>1, <1>2, <1>6
<1>8. Fresh'
  <2>1. registered /\ p \in Requests => pc[p] # "idle"
    BY DEF Rests
  <2> QED BY <1>1, <1>7, <2>1, FreshMove
<1>9. AdmTypes'
  BY <1>1, <1>6 DEF AdmTypes
<1> QED BY <1>6, <1>8, <1>9, SoundPrime DEF AdmInv

\* A turn that returns gives back the steers it did not inject.
LEMMA ReturnBooks ==
    ASSUME NEW r \in Requests, AdmInv, TurnReturns(r) \/ \E w \in WakeReqs : TurnWakes(r, w)
    PROVE  AdmInv' /\ [Lifecycle!Next]_fate
<1>1. CurrentAfter(r) \in Requests \cup {NoReq} /\ waking \subseteq Requests /\ r \in Procs
  BY ProcFacts DEF CurrentAfter, AdmInv, AdmTypes
<1>2. pc[r] \notin Arriving /\ pc[r] \notin Rests
  BY DEF TurnReturns, TurnWakes, Arriving, Rests
<1>3. CASE TurnReturns(r)
  <2>1. /\ EnterDrain(r, RestorePromotedSteers(adm), CurrentAfter(r)) /\ current' = CurrentAfter(r)
        /\ UNCHANGED <<registered, fate, lock, stale, active, awaited, ranAs, teardown, victim>>
    BY <1>3 DEF TurnReturns, lockVars, histVars, deleteVars
  <2> QED BY <1>1, <1>2, <2>1, EnterBooks
<1>4. ASSUME NEW w \in WakeReqs, TurnWakes(r, w) PROVE AdmInv' /\ [Lifecycle!Next]_fate
  <2>1. /\ CanWake(w, CurrentAfter(r)) /\ PopInto(r, Woken(w), pc, item) /\ current' = CurrentAfter(r)
        /\ fate' = [fate EXCEPT ![w] = IF registered THEN "accepted" ELSE "cleared"]
        /\ waking' = waking \cup {r}
        /\ UNCHANGED <<registered, lock, stale, active, awaited, ranAs, teardown, victim>>
    BY <1>4 DEF TurnWakes, lockVars, deleteVars
  <2>2. waking' \subseteq Requests
    BY <1>1, <2>1
  <2> QED BY <1>1, <1>2, <2>1, <2>2, WakeBooks
<1> QED BY <1>3, <1>4

\* The turn takes a steer, or waits for runs.
LEMMA InTurnBooks ==
    ASSUME NEW r \in Requests, AdmInv, TurnInject(r) \/ \E w \in WakeReqs : TurnAwaits(r, w)
    PROVE  AdmInv' /\ [Lifecycle!Next]_fate
<1>1. /\ Sound(adm, pc, item, fate) /\ Fresh /\ AdmTypes
      /\ fate \in [Requests -> Fates]
      /\ Requests \subseteq Procs /\ WakeReqs \subseteq Requests /\ NoReq \notin Requests
  BY AdmShapes, ProcFacts DEF AdmInv
<1>2. CASE TurnInject(r)
  <2> DEFINE q == Head(adm.steer).queued
  <2>1. /\ adm.steer # <<>> /\ adm' = PopSteer(adm)
        /\ fate' = [x \in Requests |-> IF x = q THEN "injected" ELSE fate[x]]
        /\ UNCHANGED <<registered, pc, item, current, lock, stale, active, waking, awaited, ranAs,
                       teardown, victim>>
    BY <1>2 DEF TurnInject, lockVars, deleteVars
  <2>2. /\ registered /\ Sound(PopSteer(adm), pc, item, fate) /\ q \in Requests \cup {NoReq}
        /\ q # NoReq => q \notin Booked(PopSteer(adm)) /\ pc[q] \in Rests /\ fate[q] = "accepted"
    BY <1>1, <2>1, SoundPopSteer
  <2> HIDE DEF q
  <2>3. CASE q = NoReq
    <3>1. fate' = fate
      BY <1>1, <2>1, <2>3
    <3>2. Sound(adm', pc', item', fate')
      BY <2>1, <2>2, <3>1
    <3>3. AdmTypes' /\ Fresh'
      BY <1>1, <2>1, <3>1 DEF AdmTypes, Fresh
    <3> QED BY <2>1, <3>1, <3>2, <3>3, SoundPrime DEF AdmInv
  <2>4. CASE q # NoReq
    <3>1. fate' = [fate EXCEPT ![q] = "injected"] /\ q \in Requests /\ "injected" \in Settled
          /\ "injected" \in Fates \ {"new", "ready"}
      BY <1>1, <2>1, <2>2, <2>4 DEF Settled, Fates
    <3>2. Lifecycle!Next
      BY <2>2, <2>4, <3>1, LifeSteps
    <3>3. pc[q] # "sched" /\ pc[q] \notin Arriving
      BY <2>2, <2>4 DEF Rests, Arriving
    <3>4. \A x \in Requests : x # q => fate'[x] = fate[x]
      BY <2>1
    <3>5. Sound(PopSteer(adm), pc, item, fate')
      BY <2>2, <2>4, <3>3, <3>4, SoundFate
    <3>6. Sound(adm', pc', item', fate')
      BY <2>1, <3>5
    <3>7. Fresh'
      <4>1. \A x \in Requests : fate'[x] = IF x = q THEN "injected" ELSE fate[x]
        BY <2>1
      <4>2. \A x \in Requests : pc'[x] \in Arriving => pc[x] \in Arriving /\ fate'[x] = fate[x]
        BY <2>1, <3>3, <4>1
      <4>3. registered => \A w \in WakeReqs : fate'[w] \in {"new", "ready"} =>
                            fate[w] \in {"new", "ready"} /\ (pc[w] = "idle" => pc'[w] = "idle")
        BY <1>1, <2>1, <4>1
      <4> QED BY <1>1, <2>1, <4>2, <4>3, FreshKept
    <3>8. AdmTypes'
      <4>1. fate' \in [Requests -> Fates]
        BY <1>1, <3>1
      <4> QED BY <1>1, <2>1, <4>1 DEF AdmTypes
    <3> QED BY <2>1, <3>2, <3>6, <3>7, <3>8, SoundPrime DEF AdmInv
  <2> QED BY <2>3, <2>4
<1>3. ASSUME NEW w \in WakeReqs, TurnAwaits(r, w) PROVE AdmInv' /\ [Lifecycle!Next]_fate
  <2>1. /\ awaited' = awaited \cup {w}
        /\ UNCHANGED <<registered, adm, fate, pc, item, current, lock, stale, active, waking,
                       ranAs, teardown, victim>>
    BY <1>3 DEF TurnAwaits, lockVars, busVars, histVars
  <2>2. AdmTypes'
    BY <1>1, <2>1 DEF AdmTypes
  <2> QED BY <2>1, <2>2, StillBooks
<1> QED BY <1>2, <1>3

\* The retry and wake tasks.
LEMMA HelperBooks ==
    ASSUME AdmInv, Helper
    PROVE  AdmInv' /\ [Lifecycle!Next]_fate
<1>1. /\ Retry \in Procs /\ WakeTask \in Procs /\ Retry \notin Requests /\ WakeTask \notin Requests
      /\ current \in Requests \cup {NoReq} /\ waking \subseteq Requests
      /\ item \in [Procs -> FollowUpItem \cup {NoItem}] /\ AdmTypes
  BY ProcFacts, AdmShapes DEF AdmInv, AdmTypes
<1>2. CASE RetryFires
  <2>1. /\ pc[Retry] = "sleep" /\ EnterDrain(Retry, adm, current)
        /\ UNCHANGED <<registered, current, fate, lock, stale, active, awaited, ranAs, teardown,
                       victim>>
    BY <1>2 DEF RetryFires, lockVars, histVars, deleteVars
  <2>2. pc[Retry] \notin Arriving
    BY <2>1 DEF Arriving
  <2> QED BY <1>1, <2>1, <2>2, EnterBooks
<1>3. CASE WakeIdles
  <2>1. /\ pc' = [pc EXCEPT ![WakeTask] = "idle"]
        /\ UNCHANGED <<registered, current, active, adm, item, fate, lock, stale, waking, awaited,
                       ranAs, teardown, victim>>
    BY <1>3 DEF WakeIdles, lockVars, busVars, histVars
  <2>2. "idle" \in Places \ Draining
    BY DEF Places, Draining, InHand
  <2>3. AdmTypes'
    BY <1>1, <2>1 DEF AdmTypes
  <2> QED BY <1>1, <2>1, <2>2, <2>3, MoveBooks
<1>4. ASSUME NEW w \in WakeReqs, WakeFires(w) PROVE AdmInv' /\ [Lifecycle!Next]_fate
  <2>1. /\ pc[WakeTask] = "sleep" /\ CanWake(w, current) /\ PopInto(WakeTask, Woken(w), pc, item)
        /\ fate' = [fate EXCEPT ![w] = IF registered THEN "accepted" ELSE "cleared"]
        /\ UNCHANGED <<registered, current, lock, stale, active, waking, awaited, ranAs, teardown,
                       victim>>
    BY <1>4 DEF WakeFires, lockVars, deleteVars
  <2>2. pc[WakeTask] \notin Arriving
    BY <2>1 DEF Arriving
  <2> QED BY <1>1, <2>1, <2>2, WakeBooks
<1> QED BY <1>2, <1>3, <1>4 DEF Helper

\* A new request, and a batch of runs that ends.
LEMMA NewsBooks ==
    ASSUME AdmInv, (\E r \in Requests : Arrive(r)) \/ \E w \in WakeReqs : RunsFinish(w)
    PROVE  AdmInv' /\ [Lifecycle!Next]_fate
<1>1. /\ Sound(adm, pc, item, fate) /\ Fresh /\ AdmTypes
      /\ pc \in [Procs -> Places] /\ fate \in [Requests -> Fates]
      /\ Requests \subseteq Procs /\ WakeReqs \subseteq Requests
      /\ WakeTask \in Procs /\ WakeTask \notin Requests
      /\ item \in [Procs -> FollowUpItem \cup {NoItem}]
  BY AdmShapes, ProcFacts DEF AdmInv
<1>2. ASSUME NEW r \in Requests, Arrive(r) PROVE AdmInv' /\ [Lifecycle!Next]_fate
  <2>1. /\ registered /\ fate[r] = "new" /\ r \notin WakeReqs /\ pc' = [pc EXCEPT ![r] = "acq"]
        /\ UNCHANGED <<registered, current, active, adm, item, fate, lock, stale, waking, awaited,
                       ranAs, teardown, victim>>
    BY <1>2, RequestAssumption DEF Arrive, lockVars, busVars, histVars
  <2>2. "acq" \in Places \ Draining
    BY DEF Places, Draining, InHand
  <2>3. r \notin Booked(adm)
    BY <2>1, NotBooked
  <2>4. Sound(adm, pc', item, fate)
    BY <1>1, <2>1, <2>2, <2>3, SoundSched
  <2>5. Fresh'
    <3>1. \A q \in Requests : pc'[q] = IF q = r THEN "acq" ELSE pc[q]
      BY <1>1, <2>1
    <3>2. \A q \in Requests : pc'[q] \in Arriving => fate'[q] = "new" /\ q \notin WakeReqs
      BY <1>1, <2>1, <3>1 DEF Fresh
    <3>3. \A w \in WakeReqs : fate'[w] \in {"new", "ready"} => pc'[w] = "idle"
      BY <1>1, <2>1, <3>1 DEF Fresh
    <3> QED BY <3>2, <3>3 DEF Fresh
  <2>6. AdmTypes'
    BY <1>1, <2>1 DEF AdmTypes
  <2> QED BY <2>1, <2>4, <2>5, <2>6, SoundPrime DEF AdmInv
<1>3. ASSUME NEW w \in WakeReqs, RunsFinish(w) PROVE AdmInv' /\ [Lifecycle!Next]_fate
  <2>1. /\ fate[w] = "new" /\ fate' = [fate EXCEPT ![w] = "ready"]
        /\ UNCHANGED <<registered, current, active, adm, item, lock, stale, waking, awaited, ranAs,
                       teardown, victim>>
        /\ pc' = pc \/ pc' = [pc EXCEPT ![WakeTask] = "sleep"]
    BY <1>1, <1>3 DEF RunsFinish, lockVars, busVars
  <2>2. "sleep" \in Places \ Draining
    BY DEF Places, Draining, InHand
  <2>3. /\ w \in Requests /\ (registered => w \notin Booked(adm) /\ pc[w] # "sched")
        /\ Lifecycle!Next
    BY <1>1, <2>1, NotBooked, LifeSteps
  <2>4. Sound(adm, pc, item, fate')
    <3>1. \A q \in Requests : q # w => fate'[q] = fate[q]
      BY <1>1, <2>1
    <3> QED BY <1>1, <2>3, <3>1, SoundFate
  <2>5. Sound(adm, [pc EXCEPT ![WakeTask] = "sleep"], item, fate')
    BY <1>1, <2>2, <2>4, SoundMove
  <2>6. Sound(adm', pc', item', fate')
    BY <2>1, <2>4, <2>5
  <2>7. Fresh'
    <3>1. \A q \in Requests : pc'[q] = pc[q] /\ (q # w => fate'[q] = fate[q])
      BY <1>1, <2>1
    <3>2. \A q \in Requests : pc'[q] \in Arriving => q # w
      BY <1>1, <3>1 DEF Fresh
    <3>3. registered => \A v \in WakeReqs : fate'[v] \in {"new", "ready"} =>
                            fate[v] \in {"new", "ready"} /\ (pc[v] = "idle" => pc'[v] = "idle")
      BY <1>1, <2>1, <3>1
    <3> QED BY <1>1, <2>1, <3>1, <3>2, <3>3, FreshKept
  <2>8. AdmTypes'
    <3>1. fate' \in [Requests -> Fates]
      BY <1>1, <2>1 DEF Fates
    <3> QED BY <1>1, <2>1, <3>1 DEF AdmTypes
  <2> QED BY <2>1, <2>3, <2>6, <2>7, <2>8, SoundPrime DEF AdmInv
<1> QED BY <1>2, <1>3

\* The client steers, cancels, promotes and deletes.
LEMMA ClientBooks ==
    ASSUME AdmInv, Steer \/ Cancel \/ \E r \in QueueReqs : Promote(r) \/ Drop(r)
    PROVE  AdmInv' /\ [Lifecycle!Next]_fate
<1>1. /\ Sound(adm, pc, item, fate) /\ Fresh /\ AdmTypes /\ fate \in [Requests -> Fates]
      /\ WakeReqs \subseteq Requests /\ Requests \subseteq Procs
  BY AdmShapes, ProcFacts DEF AdmInv
<1>2. ASSUME Sound(adm', pc, item, fate),
             UNCHANGED <<registered, current, active, pc, item, fate, lock, stale, waking, awaited,
                         ranAs, teardown, victim>>
      PROVE  AdmInv' /\ [Lifecycle!Next]_fate
  <2>1. Sound(adm', pc', item', fate')
    BY <1>2
  <2>2. AdmTypes' /\ Fresh'
    BY <1>1, <1>2 DEF AdmTypes, Fresh
  <2> QED BY <1>2, <2>1, <2>2, SoundPrime DEF AdmInv
<1>3. CASE Steer
  <2>1. /\ registered /\ adm' = EnqueueSteer(adm, [queued |-> NoReq])
        /\ UNCHANGED <<registered, current, active, pc, item, fate, lock, stale, waking, awaited,
                       ranAs, teardown, victim>>
    BY <1>3 DEF Steer, lockVars, histVars, deleteVars
  <2>2. Sound(adm', pc, item, fate)
    BY <1>1, <2>1, SoundSteer
  <2> QED BY <1>2, <2>1, <2>2
<1>4. CASE Cancel
  <2>1. /\ adm' = ClearSteer(adm)
        /\ UNCHANGED <<registered, current, active, pc, item, fate, lock, stale, waking, awaited,
                       ranAs, teardown, victim>>
    BY <1>4 DEF Cancel, lockVars, histVars, deleteVars
  <2>2. Sound(adm', pc, item, fate)
    BY <1>1, <2>1, SoundRestore
  <2> QED BY <1>2, <2>1, <2>2
<1>5. ASSUME NEW r \in QueueReqs, Promote(r) PROVE AdmInv' /\ [Lifecycle!Next]_fate
  <2>1. /\ registered /\ r \in QueuedIds(adm) /\ adm' = PromoteFollowUp(adm, r)
        /\ UNCHANGED <<registered, current, active, pc, item, fate, lock, stale, waking, awaited,
                       ranAs, teardown, victim>>
    BY <1>5 DEF Promote, lockVars, histVars, deleteVars
  <2>2. /\ Sound(WithoutFollowUp(adm, r), pc, item, fate) /\ r \notin Booked(WithoutFollowUp(adm, r))
        /\ r \in Requests /\ pc[r] \in Rests /\ fate[r] = "accepted"
    BY <1>1, <2>1, SoundLeave
  <2>3. Sound(EnqueueSteer(WithoutFollowUp(adm, r), [queued |-> r]), pc, item, fate)
    BY <2>1, <2>2, SoundSteer
  <2> QED BY <1>2, <2>1, <2>3 DEF PromoteFollowUp
<1>6. ASSUME NEW r \in QueueReqs, Drop(r) PROVE AdmInv' /\ [Lifecycle!Next]_fate
  <2>1. /\ registered /\ r \in QueuedIds(adm) \cup adm.draining /\ fate[r] # "deleted"
        /\ adm' = DropFollowUp(adm, r) /\ fate' = [fate EXCEPT ![r] = "deleted"]
        /\ UNCHANGED <<registered, current, active, pc, item, lock, stale, waking, awaited, ranAs,
                       teardown, victim>>
    BY <1>6 DEF Drop, lockVars, deleteVars
  <2>2. \A q \in Requests : fate'[q] = IF q = r THEN "deleted" ELSE fate[q]
    BY <1>1, <2>1
  <2>3. /\ Sound(adm', pc, item, fate') /\ r \in Requests /\ fate[r] = "accepted" /\ pc[r] \in Rests
    <3>1. CASE r \in QueuedIds(adm)
      <4>1. adm' = WithoutFollowUp(adm, r)
        BY <2>1, <3>1 DEF DropFollowUp
      <4>2. /\ Sound(WithoutFollowUp(adm, r), pc, item, fate) /\ r \notin Booked(WithoutFollowUp(adm, r))
            /\ r \in Requests /\ pc[r] \in Rests /\ fate[r] = "accepted"
        BY <1>1, <2>1, <3>1, SoundLeave
      <4>3. pc[r] # "sched"
        BY <4>2 DEF Rests
      <4>4. Sound(WithoutFollowUp(adm, r), pc, item, fate')
        BY <2>2, <4>2, <4>3, SoundFate
      <4> QED BY <4>1, <4>2, <4>4
    <3>2. CASE r \notin QueuedIds(adm)
      <4>1. adm' = [adm EXCEPT !.dropped = @ \cup {r}] /\ r \in adm.draining
        BY <2>1, <3>2 DEF DropFollowUp
      <4>2. r \in Requests
        <5>1. adm \in Admission
          BY <1>1 DEF Sound, Shapes
        <5> QED BY <4>1, <5>1, BookedAreRequests DEF Booked
      <4>3. fate'[r] = "deleted" /\ \A q \in Requests : q # r => fate'[q] = fate[q]
        BY <2>2, <4>2
      <4>4. /\ Sound([adm EXCEPT !.dropped = @ \cup {r}], pc, item, fate')
            /\ pc[r] \in Rests /\ fate[r] \in {"accepted", "deleted"}
        <5>1. Sound(adm, pc, item, fate) /\ registered /\ r \in adm.draining
          BY <1>1, <2>1, <4>1
        <5> QED BY ONLY <4>3, <5>1, SoundMark
      <4> QED BY <2>1, <4>1, <4>2, <4>4
    <3> QED BY <3>1, <3>2
  <2>4. Sound(adm', pc', item', fate') /\ Lifecycle!Next
    <3>1. "deleted" \in Settled
      BY DEF Settled
    <3> QED BY <2>1, <2>3, <3>1, LifeSteps
  <2>5. Fresh'
    <3>1. \A q \in Requests : pc'[q] \in Arriving => pc[q] \in Arriving /\ fate'[q] = fate[q]
      BY <2>1, <2>2, <2>3 DEF Arriving, Rests
    <3>2. registered => \A v \in WakeReqs : fate'[v] \in {"new", "ready"} =>
                            fate[v] \in {"new", "ready"} /\ (pc[v] = "idle" => pc'[v] = "idle")
      BY <1>1, <2>1, <2>2
    <3> QED BY <1>1, <2>1, <3>1, <3>2, FreshKept
  <2>6. AdmTypes'
    <3>1. fate' \in [Requests -> Fates]
      BY <1>1, <2>1, <2>3 DEF Fates
    <3> QED BY <1>1, <2>1, <3>1 DEF AdmTypes
  <2> QED BY <2>1, <2>4, <2>5, <2>6, SoundPrime DEF AdmInv
<1> QED BY <1>3, <1>4, <1>5, <1>6

\* What a statement of a killed task leaves in the lock's row.
LEMMA KillTypes ==
    ASSUME AdmInv, NEW p \in Requests \cup {Retry, WakeTask}, KilledAtAwait(p)
    PROVE  lock' \in {{}} \cup {{x} : x \in Requests \cup Foreign} /\ stale' \in BOOLEAN
<1>1. /\ AdmTypes /\ p \in Procs
      /\ \A q \in Procs : pc[q] \in Draining => item[q].rid \in Requests
  BY AdmShapes, ProcFacts DEF AdmInv
<1>2. CASE UNCHANGED lockVars
  BY <1>1, <1>2 DEF AdmTypes, lockVars
<1>3. CASE pc[p] = "drainAcq" /\ lock' = {item[p].rid} /\ stale' = FALSE
  <2>1. item[p].rid \in Requests
    BY <1>1, <1>3 DEF Draining, InHand
  <2> QED BY <1>3, <2>1
<1>4. CASE pc[p] \in {"rel", "drainDrop"} /\ Release(Token(p))
  <2>1. lock' \subseteq lock /\ stale' \in BOOLEAN
    BY <1>1, <1>4 DEF Release, AdmTypes
  <2> QED BY <1>1, <2>1 DEF AdmTypes
<1> QED BY <1>2, <1>3, <1>4 DEF KilledAtAwait

\* The session goes away.
LEMMA DetachBooks ==
    ASSUME AdmInv, Detach
    PROVE  AdmInv' /\ [Lifecycle!Next]_fate
<1>1. /\ Sound(adm, pc, item, fate) /\ Fresh /\ AdmTypes /\ fate \in [Requests -> Fates]
      /\ pc \in [Procs -> Places] /\ item \in [Procs -> FollowUpItem \cup {NoItem}]
      /\ WakeReqs \subseteq Requests /\ Requests \subseteq Procs /\ Retry \in Procs /\ Retry \notin Requests
      /\ \A q \in Procs : pc[q] \in Draining => item[q] \in FollowUpItem
  BY AdmShapes, ProcFacts DEF AdmInv
<1>2. /\ registered' = FALSE /\ teardown' = "detached" /\ adm' = EmptyAdmission
      /\ pc' = [pc EXCEPT ![Retry] = "idle"] /\ item' = [item EXCEPT ![Retry] = NoItem]
      /\ KilledAtAwait(Retry)
      /\ fate' = [r \in Requests |-> IF fate[r] = "accepted" THEN "cleared" ELSE fate[r]]
      /\ UNCHANGED <<current, active, waking, awaited, ranAs, victim>>
  BY DEF Detach, CancelRetry, ForgetItem
<1>3. Lifecycle!Next
  BY <1>2 DEF Lifecycle!Next, Lifecycle!Clear
<1>4. adm' \in Admission /\ adm'.dropped \subseteq adm'.draining /\ adm'.steer = <<>>
  BY <1>2 DEF EmptyAdmission, Admission
<1>5. /\ pc' \in [Procs -> Places] /\ item' \in [Procs -> FollowUpItem \cup {NoItem}]
      /\ \A q \in Procs : q # Retry => pc'[q] = pc[q] /\ item'[q] = item[q]
      /\ pc'[Retry] = "idle"
  BY <1>1, <1>2 DEF Places
<1>6. \A q \in Procs : pc'[q] \in Draining => item'[q] \in FollowUpItem
  <2>1. "idle" \notin Draining
    BY DEF Draining, InHand
  <2> QED BY <1>1, <1>5, <2>1
<1>7. Sound(adm, pc, item, fate)'
  BY <1>2, <1>4, <1>5, <1>6 DEF Sound, Shapes
<1>8. Fresh'
  <2>1. \A q \in Requests : pc'[q] = pc[q]
    BY <1>1, <1>5
  <2> QED BY <1>1, <1>2, <2>1 DEF Fresh
<1>9. AdmTypes'
  <2>1. fate' \in [Requests -> Fates]
    <3>1. \A r \in Requests : fate'[r] \in Fates
      BY <1>1, <1>2 DEF Fates
    <3> QED BY <1>2, <3>1
  <2>2. lock' \in {{}} \cup {{x} : x \in Requests \cup Foreign} /\ stale' \in BOOLEAN
    BY <1>2, KillTypes
  <2> QED BY <1>1, <1>2, <2>1, <2>2 DEF AdmTypes
<1> QED BY <1>3, <1>7, <1>8, <1>9 DEF AdmInv

\* The teardown of a session keeps the books.
LEMMA TeardownBooks ==
    ASSUME AdmInv, Teardown
    PROVE  AdmInv' /\ [Lifecycle!Next]_fate
<1>1. /\ AdmTypes /\ pc \in [Procs -> Places] /\ item \in [Procs -> FollowUpItem \cup {NoItem}]
      /\ Requests \subseteq Procs /\ WakeTask \in Procs /\ WakeTask \notin Requests
  BY AdmShapes, ProcFacts DEF AdmInv
<1>2. \A x \in {"idle", "rel", "done"} : x \in Places \ Draining /\ x # "sched" /\ x \notin Arriving
  BY DEF Places, Draining, InHand, Arriving
<1>3. CASE Quiesce
  <2>1. /\ teardown = "detached" /\ teardown' = "quiesce" /\ victim' = active
        /\ pc' = [pc EXCEPT ![WakeTask] = "idle"] /\ item' = ForgetItem(item, WakeTask)
        /\ KilledAtAwait(WakeTask)
        /\ UNCHANGED <<registered, current, active, adm, waking, awaited, fate, ranAs>>
    BY <1>3 DEF Quiesce, busVars, histVars
  <2>2. item' \in [Procs -> FollowUpItem \cup {NoItem}] /\ \A q \in Procs : q # WakeTask => item'[q] = item[q]
    BY <1>1, <2>1 DEF ForgetItem
  <2>3. lock' \in {{}} \cup {{x} : x \in Requests \cup Foreign} /\ stale' \in BOOLEAN
    BY <2>1, KillTypes
  <2>4. AdmTypes'
    BY <1>1, <2>1, <2>3 DEF AdmTypes
  <2> QED BY <1>1, <1>2, <2>1, <2>2, <2>4, MoveBooks
<1>4. CASE HardCancel
  <2>1. /\ teardown = "quiesce" /\ victim \in Requests /\ item' = ForgetItem(item, victim)
        /\ waking' = waking \ {victim} /\ KilledAtAwait(victim)
        /\ UNCHANGED <<registered, current, active, adm, awaited, fate, ranAs, teardown, victim>>
    BY <1>4 DEF HardCancel, busVars, histVars
  <2>2. PICK x \in {"rel", "done"} : pc' = [pc EXCEPT ![victim] = x]
    BY <1>1, <1>4, <2>1 DEF HardCancel
  <2>3. item' \in [Procs -> FollowUpItem \cup {NoItem}] /\ \A q \in Procs : q # victim => item'[q] = item[q]
    BY <1>1, <2>1 DEF ForgetItem
  <2>4. lock' \in {{}} \cup {{o} : o \in Requests \cup Foreign} /\ stale' \in BOOLEAN
    BY <2>1, KillTypes
  <2>5. AdmTypes' /\ ~registered
    BY <1>1, <2>1, <2>4 DEF AdmTypes
  <2> QED BY <1>1, <1>2, <2>1, <2>2, <2>3, <2>5, MoveBooks
<1>5. CASE CleanupSpill
  <2>1. /\ teardown = "quiesce" /\ teardown' = "cleaned"
        /\ UNCHANGED <<registered, current, active, adm, pc, item, lock, stale, waking, awaited,
                       fate, ranAs, victim>>
    BY <1>5 DEF CleanupSpill, lockVars, busVars, histVars
  <2>2. AdmTypes'
    BY <1>1, <2>1 DEF AdmTypes
  <2> QED BY <2>1, <2>2, StillBooks
<1> QED BY <1>3, <1>4, <1>5, DetachBooks DEF Teardown

\* The lock's other users, and the claim that grows old.
LEMMA ForeignBooks ==
    ASSUME AdmInv, Expire \/ \E f \in Foreign : \/ ForeignAcquire(f) \/ ForeignCrash(f)
                                                \/ TurnEnd(f) \/ TurnRelease(f)
    PROVE  AdmInv' /\ [Lifecycle!Next]_fate
<1>1. AdmTypes /\ pc \in [Procs -> Places] /\ item \in [Procs -> FollowUpItem \cup {NoItem}]
  BY AdmShapes DEF AdmInv
<1>2. CASE Expire
  <2>1. /\ stale' = TRUE
        /\ UNCHANGED <<registered, current, active, adm, pc, item, lock, waking, awaited, fate,
                       ranAs, teardown, victim>>
    BY <1>2 DEF Expire, busVars, histVars
  <2>2. AdmTypes'
    BY <1>1, <2>1 DEF AdmTypes
  <2> QED BY <2>1, <2>2, StillBooks
<1>3. ASSUME NEW f \in Foreign, ForeignAcquire(f) \/ ForeignCrash(f) PROVE AdmInv' /\ [Lifecycle!Next]_fate
  <2>1. f \in Procs /\ f \notin Requests
    BY ProcessAssumption DEF Procs
  <2>2. PICK x \in {"turn", "done"} : pc' = [pc EXCEPT ![f] = x]
    BY <1>3 DEF ForeignAcquire, ForeignCrash
  <2>3. /\ UNCHANGED <<registered, current, active, adm, item, waking, awaited, fate, ranAs,
                       teardown, victim>>
        /\ (lock' = {f} /\ stale' = FALSE) \/ UNCHANGED <<lock, stale>>
    BY <1>3 DEF ForeignAcquire, ForeignCrash, lockVars, busVars, histVars
  <2>4. AdmTypes'
    BY <1>1, <2>3, LockTypes DEF AdmTypes
  <2>5. x \in Places \ Draining /\ x # "sched" /\ x \notin Arriving
    BY DEF Places, Draining, InHand, Arriving
  <2> QED BY <1>1, <2>1, <2>2, <2>3, <2>4, <2>5, MoveBooks
<1> QED BY <1>2, <1>3, TurnBooks

\* The books are true of a new session.
LEMMA InitBooks == Init => AdmInv
<1> SUFFICES ASSUME Init PROVE AdmInv
  OBVIOUS
<1>1. AdmTypes
  BY DEF Init, AdmTypes, Fates
<1>2. \A p \in Procs : pc[p] = "idle" /\ item[p] = NoItem
  BY DEF Init
<1>3. Requests \subseteq Procs /\ WakeReqs \subseteq Requests
  BY ProcFacts
<1>4. Fresh
  BY <1>2, <1>3 DEF Fresh, Arriving
<1>5. "idle" \notin Draining /\ "idle" \notin InHand /\ "idle" \in Places /\ "idle" # "sched"
  BY DEF Draining, InHand, Places
<1>6. /\ adm = [steer |-> <<>>, followUp |-> <<>>, draining |-> {}, dropped |-> {}]
      /\ adm \in Admission /\ Ids(adm.followUp) = {} /\ Sources(adm.steer) = {}
      /\ Once(adm.followUp) /\ OnceFrom(adm.steer)
  BY DEF Init, EmptyAdmission, Admission, Ids, Sources, Once, OnceFrom
<1>7. Shapes(adm, pc, item)
  <2>1. pc \in [Procs -> Places] /\ item \in [Procs -> FollowUpItem \cup {NoItem}]
    BY <1>5 DEF Init
  <2> QED BY <1>2, <1>5, <1>6, <2>1 DEF Shapes
<1>8. Books(adm, pc, item, fate)
  BY <1>2, <1>3, <1>5, <1>6 DEF Books, BookedOnce, Fated, Hands, Booked
<1> QED BY <1>1, <1>4, <1>7, <1>8 DEF AdmInv, Sound

\* Every step keeps the books, and is a step of the life of one request, of
\* the session's end, or of none.
THEOREM BooksStep == AdmInv /\ [Next]_vars => AdmInv' /\ [Lifecycle!Next]_fate
<1> SUFFICES ASSUME AdmInv, [Next]_vars PROVE AdmInv' /\ [Lifecycle!Next]_fate
  OBVIOUS
<1>1. CASE UNCHANGED vars
  <2>1. UNCHANGED <<registered, adm, pc, item, fate, lock, stale, current, active, waking, awaited,
                    ranAs, teardown, victim>>
    BY <1>1 DEF vars
  <2>2. AdmTypes'
    BY <2>1 DEF AdmInv, AdmTypes
  <2> QED BY <2>1, <2>2, StillBooks
<1>2. ASSUME NEW p \in Requests \cup {Retry, WakeTask}, Drain(p) PROVE AdmInv' /\ [Lifecycle!Next]_fate
  BY <1>2, DrainKeepsBooks, DrainSkippedBooks, DrainGiveUpBooks, DrainStartBooks,
     DrainRequeueBooks DEF Drain
<1>3. ASSUME NEW r \in Requests, Handle(r) PROVE AdmInv' /\ [Lifecycle!Next]_fate
  BY <1>3, HandleBooks, QueueBusyBooks DEF Handle
<1>4. ASSUME NEW r \in Requests, Turn(r) PROVE AdmInv' /\ [Lifecycle!Next]_fate
  BY <1>4, TurnBooks, ReturnBooks DEF Turn
<1>5. ASSUME NEW r \in Requests, TurnInject(r) \/ \E w \in WakeReqs : TurnAwaits(r, w)
      PROVE  AdmInv' /\ [Lifecycle!Next]_fate
  BY <1>5, InTurnBooks
<1>6. CASE Client
  BY <1>6, NewsBooks, ClientBooks DEF Client
<1>7. CASE Helper \/ Teardown \/ Expire \/ \E w \in WakeReqs : RunsFinish(w)
  BY <1>7, HelperBooks, TeardownBooks, ForeignBooks, NewsBooks
<1>8. CASE \E f \in Foreign : ForeignAcquire(f) \/ ForeignCrash(f) \/ TurnEnd(f) \/ TurnRelease(f)
  BY <1>8, ForeignBooks
<1> QED BY <1>1, <1>2, <1>3, <1>4, <1>5, <1>6, <1>7, <1>8 DEF Next

\* The books are in order in every state: a prompt is in one place at most, what
\* is booked waits and is accepted, or deleted and dropped, and what is scheduled
\* is accepted.
THEOREM BooksSafety == Spec => []AdmInv
BY InitBooks, BooksStep, PTL DEF Spec

\* Whatever happens to a request is what the lifecycle allows.
THEOREM LifecycleRefinement == Spec => LifecycleSpec
<1>1. Init => Lifecycle!Init
  BY DEF Init, Lifecycle!Init
<1> QED BY <1>1, InitBooks, BooksStep, PTL DEF Spec, LifecycleSpec, Lifecycle!Spec
===========================================================================

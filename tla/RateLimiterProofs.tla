--------------------------- MODULE RateLimiterProofs ---------------------------
(* Theorems about RateLimiter, for any number of requests and of restarts, *)
(* any limit and any window, whatever may go wrong.                        *)
EXTENDS RateLimiter, TLAPS, FiniteSetTheorems

LEMMA LimiterInitTypes == LimiterInit => LimiterTypeOK
  BY LimiterAssumption DEF LimiterInit, LimiterTypeOK, Stage, Enough, NoTtl, NoKey

(* A key a second later is a key.                                          *)
LEMMA KeyAgedType ==
  ASSUME NEW k \in [counter : 0..Enough, ttl : {NoTtl} \cup 1..Window]
  PROVE  KeyAged(k) \in [counter : 0..Enough, ttl : {NoTtl} \cup 1..Window]
<1>1. k.counter \in 0..Enough /\ k.ttl \in {NoTtl} \cup 1..Window /\ 0 \in 0..Enough
  BY LimiterAssumption DEF Enough
<1>2. CASE k.ttl = 1
  BY <1>1, <1>2 DEF KeyAged, NoKey
<1>3. CASE k.ttl # 1
  <2> DEFINE t == IF k.ttl > 1 THEN k.ttl - 1 ELSE NoTtl
  <2>1. t \in {NoTtl} \cup 1..Window
    BY <1>1, <1>3, LimiterAssumption DEF NoTtl
  <2>2. KeyAged(k) = [k EXCEPT !.ttl = t]
    BY <1>3 DEF KeyAged
  <2> HIDE DEF t
  <2> QED
    BY <2>1, <2>2
<1> QED
  BY <1>2, <1>3

(* What a second does to the key, and to an age.                           *)
LEMMA KeyAgedFields ==
  ASSUME NEW k \in [counter : 0..Enough, ttl : {NoTtl} \cup 1..Window]
  PROVE  /\ k.ttl = 1 => KeyAged(k).counter = 0 /\ KeyAged(k).ttl = NoTtl
         /\ k.ttl # 1 => /\ KeyAged(k).counter = k.counter
                         /\ KeyAged(k).ttl = IF k.ttl > 1 THEN k.ttl - 1 ELSE NoTtl
  BY DEF KeyAged, NoKey

LEMMA KeyType ==
  ASSUME LimiterTypeOK
  PROVE  /\ Key \in [counter : 0..Enough, ttl : {NoTtl} \cup 1..Window]
         /\ Key.counter = counter /\ Key.ttl = ttl
  BY DEF LimiterTypeOK, Key

LEMMA AgedType ==
  ASSUME NEW S, NEW ages \in [S -> 0..Window]
  PROVE  /\ Aged(ages) \in [S -> 0..Window]
         /\ \A x \in S : Aged(ages)[x] = IF ages[x] < Window THEN ages[x] + 1 ELSE ages[x]
  BY LimiterAssumption DEF Aged

(* Every step keeps the types.                                             *)
LEMMA LimiterTypeStep ==
  ASSUME LimiterTypeOK, [LimiterNext]_limiterVars PROVE LimiterTypeOK'
<1> USE LimiterAssumption
<1>0. Next1(counter) \in 0..Enough /\ 0 \in 0..Enough /\ 0 \in 0..Window
      /\ Window \in 0..Window
  BY DEF Next1, LimiterTypeOK, Enough
<1>1. ASSUME NEW r \in Request, Incr(r) \/ IncrUnanswered(r) \/ IncrFails(r)
      PROVE  LimiterTypeOK'
  BY <1>0, <1>1 DEF Incr, IncrUnanswered, IncrFails, Stage, LimiterTypeOK
<1>2. ASSUME NEW r \in Request, Expire(r) \/ ExpireFails(r) PROVE LimiterTypeOK'
  BY <1>0, <1>2 DEF Expire, ExpireFails, Stage, LimiterTypeOK
<1>3. ASSUME NEW r \in Request, Serve(r) PROVE LimiterTypeOK'
  BY <1>3 DEF Serve, Stage, LimiterTypeOK
<1>4. ASSUME NEW R, Over(R) PROVE LimiterTypeOK'
  BY <1>0, <1>4 DEF Over, Stage, LimiterTypeOK
<1>5. CASE Tick
  <2>1. LimiterTypeOK /\ KeyAged(Key) \in [counter : 0..Enough, ttl : {NoTtl} \cup 1..Window]
    BY KeyType, KeyAgedType
  <2>2. counter' \in 0..Enough /\ ttl' \in {NoTtl} \cup 1..Window
    BY <1>5, <2>1 DEF Tick
  <2>3. disk' \in [counter : 0..Enough, ttl : {NoTtl} \cup 1..Window]
    BY <1>5, <2>1, KeyAgedType DEF Tick, LimiterTypeOK
  <2>4. age' \in [Request -> 0..Window] /\ lossAge' \in [Loss -> 0..Window]
    BY <1>5, <2>1, AgedType DEF Tick, LimiterTypeOK
  <2> QED
    BY <1>5, <2>1, <2>2, <2>3, <2>4 DEF Tick, LimiterTypeOK
<1>6. CASE Save
  BY <1>6, KeyType DEF Save, LimiterTypeOK
<1>7. ASSUME NEW l \in Loss, RedisRestarts(l) PROVE LimiterTypeOK'
  BY <1>0, <1>7 DEF RedisRestarts, LimiterTypeOK
<1>8. CASE UNCHANGED limiterVars
  BY <1>8 DEF limiterVars, LimiterTypeOK
<1> QED
  BY <1>1, <1>2, <1>3, <1>4, <1>5, <1>6, <1>7, <1>8 DEF LimiterNext, Refuse, Forget, AppDies

(* Types, for every value of the constants.                                *)
THEOREM LimiterTypeCorrect == LimiterSpec => []LimiterTypeOK
  BY LimiterInitTypes, LimiterTypeStep, PTL DEF LimiterSpec

-----------------------------------------------------------------------------

(* Which life of the key counted a request: the one a restart cut short,   *)
(* this one, or the one before, which its time to live ended.              *)
Now    == CHOOSE x : x \notin Loss
Before == CHOOSE x : x \notin Loss \cup {Now}
Life   == Loss \cup {Now, Before}

(* When a key with this time to live ends, the request is not recent.      *)
OutBy(r, t) == t # NoTtl => age[r] >= Window - t

(* The requests of one life have different counts.  This life counted up   *)
(* to counter.  When it ends, by the time to live it has or by the one a   *)
(* restart would bring back, neither the life before nor the request that  *)
(* created the key is recent.  A restart that cut a life short is as       *)
(* recent as the requests of that life.                                    *)
Lives(life) ==
  /\ \A r, s \in Recent : life[r] = life[s] /\ count[r] = count[s] => r = s
  /\ \A r \in Recent :
       /\ count[r] \in 1..Limit
       /\ life[r] = Now    => count[r] <= counter /\ (count[r] = 1 => OutBy(r, ttl))
       /\ life[r] = Before => count[r] # 1 /\ OutBy(r, ttl) /\ OutBy(r, disk.ttl)
       /\ life[r] \in Loss => lossAge[life[r]] <= age[r]

(* Only a key that is there expires; the snapshot's not after the key.     *)
KeyInv ==
  /\ ttl # NoTtl => counter > 0
  /\ disk.ttl # NoTtl => disk.counter > 0 /\ ttl # NoTtl /\ disk.ttl <= ttl

LimiterInv ==
  /\ LimiterTypeOK
  /\ KeyInv
  /\ \E life \in [Request -> Life] : Lives(life)

-----------------------------------------------------------------------------

(* The tags of the lives are told apart.                                   *)
LEMMA LivesDiffer ==
  Now \notin Loss /\ Before \notin Loss /\ Now # Before /\ Now \in Life /\ Before \in Life
<1>1. Now \notin Loss
  BY NoSetContainsEverything DEF Now
<1>2. Before \notin Loss \cup {Now}
  BY NoSetContainsEverything DEF Before
<1> QED
  BY <1>1, <1>2 DEF Life

(* The types, as far as the lives need them.                               *)
LEMMA LimiterTypes ==
  ASSUME LimiterTypeOK
  PROVE  /\ counter \in Int /\ counter >= 0
         /\ ttl \in Int /\ ttl \in {NoTtl} \cup 1..Window
         /\ disk.counter \in Int /\ disk.counter >= 0
         /\ disk.ttl \in Int /\ disk.ttl \in {NoTtl} \cup 1..Window
         /\ \A r \in Request : count[r] \in Int
         /\ \A r \in Request : age[r] \in Int /\ age[r] >= 0 /\ age[r] <= Window
         /\ \A l \in Loss : lossAge[l] \in Int /\ lossAge[l] >= 0 /\ lossAge[l] <= Window
         /\ Window \in Int /\ Window >= 0 /\ Limit \in Int /\ Limit >= 0 /\ NoTtl = -1
  BY LimiterAssumption DEF LimiterTypeOK, NoTtl, Enough

(* Every step keeps what is known of the key.                              *)
LEMMA KeyStep ==
  ASSUME LimiterTypeOK, KeyInv, [LimiterNext]_limiterVars PROVE KeyInv'
<1>0. /\ counter \in Int /\ counter >= 0 /\ ttl \in Int /\ disk.ttl \in Int
      /\ ttl \in {NoTtl} \cup 1..Window /\ disk.ttl \in {NoTtl} \cup 1..Window
      /\ Window \in Int /\ Window >= 0 /\ NoTtl = -1
      /\ Next1(counter) \in Int /\ Next1(counter) >= counter
  BY LimiterTypes, LimiterAssumption DEF Next1, Enough
<1>1. ASSUME NEW r \in Request, Incr(r) \/ IncrUnanswered(r) \/ IncrFails(r) PROVE KeyInv'
  BY <1>0, <1>1 DEF Incr, IncrUnanswered, IncrFails, KeyInv
<1>2. ASSUME NEW r \in Request, Expire(r) PROVE KeyInv'
  BY <1>0, <1>2 DEF Expire, KeyInv
<1>3. ASSUME NEW r \in Request, ExpireFails(r) \/ Serve(r) PROVE KeyInv'
  BY <1>3 DEF ExpireFails, Serve, KeyInv
<1>4. ASSUME NEW R, Over(R) PROVE KeyInv'
  BY <1>4 DEF Over, KeyInv
<1>5. CASE Tick
  <2>1. disk \in [counter : 0..Enough, ttl : {NoTtl} \cup 1..Window]
    BY DEF LimiterTypeOK
  <2>2. /\ counter' = IF ttl = 1 THEN 0 ELSE counter
        /\ ttl' = IF ttl > 1 THEN ttl - 1 ELSE NoTtl
    BY <1>0, <1>5, KeyType, KeyAgedFields DEF Tick
  <2>3. /\ disk'.counter = IF disk.ttl = 1 THEN 0 ELSE disk.counter
        /\ disk'.ttl = IF disk.ttl > 1 THEN disk.ttl - 1 ELSE NoTtl
    BY <1>0, <1>5, <2>1, KeyAgedFields DEF Tick
  <2> QED
    BY <1>0, <2>2, <2>3 DEF KeyInv
<1>6. CASE Save
  BY <1>0, <1>6 DEF Save, Key, KeyInv
<1>7. ASSUME NEW l \in Loss, RedisRestarts(l) PROVE KeyInv'
  BY <1>0, <1>7 DEF RedisRestarts, KeyInv
<1>8. CASE UNCHANGED limiterVars
  BY <1>8 DEF limiterVars, KeyInv
<1> QED
  BY <1>1, <1>2, <1>3, <1>4, <1>5, <1>6, <1>7, <1>8 DEF LimiterNext, Refuse, Forget, AppDies

(* Nobody becomes recent, and nothing is renewed but the time to live: the *)
(* lives stay as they are.                                                 *)
LEMMA SameLives ==
  ASSUME LimiterTypeOK, NEW life, Lives(life),
         Recent' \subseteq Recent,
         \A r \in Recent' : count'[r] = count[r] /\ age'[r] = age[r],
         UNCHANGED lossAge, counter' \in Int, counter' >= counter,
         ttl' \in {ttl, NoTtl, Window}, disk'.ttl \in {disk.ttl, ttl}
  PROVE  Lives(life)'
<1> DEFINE OutThen(r, t) == t # NoTtl => age'[r] >= Window - t
<1>1. Recent \subseteq Request
  BY DEF Recent
<1>2. ASSUME NEW r \in Recent', NEW t, OutBy(r, t) PROVE OutThen(r, t)
  BY <1>2 DEF OutBy
<1>3. ASSUME NEW r \in Recent' PROVE OutThen(r, Window)
  BY <1>1, <1>3, LimiterTypes
<1>4. ASSUME NEW r \in Recent', OutBy(r, ttl) PROVE OutThen(r, ttl')
  BY <1>2, <1>3, <1>4
<1>5. ASSUME NEW r \in Recent', OutBy(r, ttl), OutBy(r, disk.ttl) PROVE OutThen(r, disk'.ttl)
  BY <1>2, <1>5
<1>6. ASSUME NEW r \in Recent'
      PROVE  /\ count'[r] \in 1..Limit
             /\ life[r] = Now => count'[r] <= counter' /\ (count'[r] = 1 => OutThen(r, ttl'))
             /\ life[r] = Before =>
                  count'[r] # 1 /\ OutThen(r, ttl') /\ OutThen(r, disk'.ttl)
             /\ life[r] \in Loss => lossAge'[life[r]] <= age'[r]
  <2>1. r \in Recent /\ count'[r] = count[r] /\ age'[r] = age[r] /\ lossAge' = lossAge
    BY <1>6
  <2>2. count[r] \in 1..Limit /\ (life[r] \in Loss => lossAge[life[r]] <= age[r])
    BY <2>1 DEF Lives
  <2>3. life[r] = Now => count[r] <= counter' /\ (count[r] = 1 => OutBy(r, ttl))
    BY <2>1, <2>2, LimiterTypes DEF Lives
  <2>4. life[r] = Before => count[r] # 1 /\ OutBy(r, ttl) /\ OutBy(r, disk.ttl)
    BY <2>1 DEF Lives
  <2> HIDE DEF OutThen
  <2> QED
    BY <1>4, <1>5, <2>1, <2>2, <2>3, <2>4
<1>7. \A r, s \in Recent' : life[r] = life[s] /\ count'[r] = count'[s] => r = s
  <2> SUFFICES ASSUME NEW r \in Recent', NEW s \in Recent',
                      life[r] = life[s], count'[r] = count'[s]
               PROVE  r = s
    OBVIOUS
  <2>1. r \in Recent /\ s \in Recent /\ count[r] = count[s]
    OBVIOUS
  <2> QED
    BY <2>1 DEF Lives
<1> QED
  BY <1>6, <1>7 DEF Lives, OutBy

(* The next count, if it is within the limit, is nobody's in this life; if *)
(* it is 1, there was no key, and so no time to live.                      *)
LEMMA NewCount ==
  ASSUME LimiterTypeOK, KeyInv, NEW life \in [Request -> Life], Lives(life),
         NEW r \in Request, Incr(r)
  PROVE  Lives([life EXCEPT ![r] = Now])'
<1> DEFINE next == [life EXCEPT ![r] = Now]
<1>0. Recent \subseteq Request /\ Recent' \subseteq Request /\ r \notin Recent
  BY DEF Recent, Incr
<1>1. next[r] = Now /\ \A q \in Request \ {r} : next[q] = life[q]
  OBVIOUS
<1>2. /\ UNCHANGED <<ttl, disk, lossAge>>
      /\ counter' = Next1(counter)
      /\ count'[r] = Next1(counter)
      /\ \A q \in Request \ {r} : count'[q] = count[q] /\ age'[q] = age[q]
  BY DEF Incr, LimiterTypeOK
<1>3. \A q \in Recent' \ {r} : q \in Recent
  <2>1. \A q \in Request \ {r} : stage'[q] = stage[q]
    BY DEF Incr, LimiterTypeOK
  <2> QED
    BY <1>0, <1>2, <2>1 DEF Recent
<1>4. counter' \in Int /\ counter' >= counter
  BY <1>2, LimiterTypes, LimiterAssumption DEF Next1, Enough
<1>5. r \in Recent' => counter' \in 1..Limit /\ counter' = counter + 1
  <2>1. r \in Recent' => counter' <= Limit
    BY <1>2 DEF Recent, Admits
  <2> QED
    BY <1>2, <2>1, LimiterTypes, LimiterAssumption DEF Next1, Enough
<1>6. \A q \in Recent : count[q] \in 1..Limit /\ (life[q] = Now => count[q] <= counter)
  BY DEF Lives
<1> HIDE DEF next
<1>7. ASSUME NEW p \in Recent', NEW q \in Recent', next[p] = next[q], count'[p] = count'[q]
      PROVE  p = q
  <2>1. CASE p # r /\ q # r
    <3>1. /\ p \in Recent /\ q \in Recent
          /\ life[p] = life[q] /\ count[p] = count[q]
      BY <1>0, <1>1, <1>2, <1>3, <1>7, <2>1
    <3> QED
      BY <3>1 DEF Lives
  <2>2. ASSUME NEW u \in Recent', u # r, next[u] = Now PROVE count'[u] <= counter
    BY <1>0, <1>1, <1>2, <1>3, <1>6, <2>2
  <2>3. r \in Recent' => count'[r] = counter + 1
    BY <1>2, <1>5
  <2>4. counter \in Int
    BY LimiterTypes
  <2>5. CASE p = r /\ q # r
    BY <1>1, <1>7, <2>2, <2>3, <2>4, <2>5
  <2>6. CASE q = r /\ p # r
    BY <1>1, <1>7, <2>2, <2>3, <2>4, <2>6
  <2> QED
    BY <2>1, <2>5, <2>6
<1>8. ASSUME NEW q \in Recent'
      PROVE  /\ count'[q] \in 1..Limit
             /\ next[q] = Now => count'[q] <= counter' /\ (count'[q] = 1 => OutBy(q, ttl)')
             /\ next[q] = Before => count'[q] # 1 /\ OutBy(q, ttl)' /\ OutBy(q, disk.ttl)'
             /\ next[q] \in Loss => lossAge'[next[q]] <= age'[q]
  <2>1. CASE q = r
    <3>1. count'[q] = counter' /\ next[q] = Now /\ counter' \in 1..Limit
      BY <1>1, <1>2, <1>5, <1>8, <2>1
    <3>2. counter' = 1 => ttl' = NoTtl
      BY <1>2, <1>5, <1>8, <2>1, LimiterTypes DEF KeyInv
    <3>3. counter' = 1 => OutBy(q, ttl)'
      BY <3>2 DEF OutBy
    <3> QED
      BY <3>1, <3>3, LivesDiffer
  <2>2. CASE q # r
    <3>1. q \in Recent /\ next[q] = life[q] /\ count'[q] = count[q] /\ age'[q] = age[q]
      BY <1>0, <1>1, <1>2, <1>3, <1>8, <2>2
    <3>2. OutBy(q, ttl)' = OutBy(q, ttl) /\ OutBy(q, disk.ttl)' = OutBy(q, disk.ttl)
      BY <1>2, <3>1 DEF OutBy
    <3>3. /\ count[q] \in 1..Limit
          /\ life[q] = Now    => count[q] <= counter /\ (count[q] = 1 => OutBy(q, ttl))
          /\ life[q] = Before => count[q] # 1 /\ OutBy(q, ttl) /\ OutBy(q, disk.ttl)
          /\ life[q] \in Loss => lossAge[life[q]] <= age[q]
      BY <3>1 DEF Lives
    <3>4. count[q] <= counter => count[q] <= counter'
      BY <1>4, <3>3, LimiterTypes
    <3>5. lossAge' = lossAge
      BY <1>2
    <3> QED
      BY <3>1, <3>2, <3>3, <3>4, <3>5
  <2> QED
    BY <2>1, <2>2
<1>9. Lives(next)'
  BY <1>7, <1>8 DEF Lives
<1> QED
  BY <1>9 DEF next

(* A second passes: ages and times to live move together.                  *)
LEMMA SecondPasses ==
  ASSUME LimiterTypeOK, Tick
  PROVE  /\ Recent' \subseteq Recent /\ count' = count
         /\ \A r \in Recent' : age'[r] = age[r] + 1 /\ age'[r] < Window
         /\ \A l \in Loss : lossAge'[l] <= lossAge[l] + 1
         /\ counter' = IF ttl = 1 THEN 0 ELSE counter
         /\ ttl' = IF ttl > 1 THEN ttl - 1 ELSE NoTtl
         /\ disk'.ttl = IF disk.ttl > 1 THEN disk.ttl - 1 ELSE NoTtl
<1>1. age \in [Request -> 0..Window] /\ lossAge \in [Loss -> 0..Window]
      /\ disk \in [counter : 0..Enough, ttl : {NoTtl} \cup 1..Window]
  BY DEF LimiterTypeOK
<1>2. count' = count /\ stage' = stage
  BY DEF Tick
<1>3. \A r \in Request : age'[r] = IF age[r] < Window THEN age[r] + 1 ELSE age[r]
  BY <1>1, AgedType DEF Tick
<1>4. \A l \in Loss : lossAge'[l] <= lossAge[l] + 1
  <2>1. \A l \in Loss :
          lossAge'[l] = IF lossAge[l] < Window THEN lossAge[l] + 1 ELSE lossAge[l]
    BY <1>1, AgedType DEF Tick
  <2> QED
    BY <2>1, LimiterTypes
<1>5. Recent' \subseteq Recent
      /\ \A r \in Recent' : age'[r] = age[r] + 1 /\ age'[r] < Window
  <2> SUFFICES ASSUME NEW r \in Recent'
               PROVE  r \in Recent /\ age'[r] = age[r] + 1 /\ age'[r] < Window
    OBVIOUS
  <2>1. r \in Request /\ age'[r] < Window
    BY DEF Recent
  <2>2. age[r] < Window /\ age'[r] = age[r] + 1
    BY <1>3, <2>1, LimiterTypes
  <2> QED
    BY <1>2, <2>1, <2>2 DEF Recent
<1>6. ttl \in Int /\ disk.ttl \in Int /\ NoTtl = -1
  BY LimiterTypes
<1>7. /\ counter' = IF ttl = 1 THEN 0 ELSE counter
      /\ ttl' = IF ttl > 1 THEN ttl - 1 ELSE NoTtl
  BY <1>6, KeyType, KeyAgedFields DEF Tick
<1>8. disk'.ttl = IF disk.ttl > 1 THEN disk.ttl - 1 ELSE NoTtl
  BY <1>1, <1>6, KeyAgedFields DEF Tick
<1> QED
  BY <1>2, <1>4, <1>5, <1>7, <1>8

(* A second later, who is out by then is out by what is left.              *)
LEMMA OutByLater ==
  ASSUME LimiterTypeOK, Tick, NEW r \in Recent'
  PROVE  /\ OutBy(r, ttl) => ttl # 1 /\ OutBy(r, ttl)'
         /\ OutBy(r, disk.ttl) => OutBy(r, disk.ttl)'
<1>1. r \in Request
  BY DEF Recent
<1>2. /\ age'[r] = age[r] + 1 /\ age'[r] < Window
      /\ ttl' = IF ttl > 1 THEN ttl - 1 ELSE NoTtl
      /\ disk'.ttl = IF disk.ttl > 1 THEN disk.ttl - 1 ELSE NoTtl
  BY SecondPasses
<1>3. age[r] \in Int /\ ttl \in Int /\ disk.ttl \in Int /\ Window \in Int /\ NoTtl = -1
  BY <1>1, LimiterTypes
<1> QED
  BY <1>2, <1>3 DEF OutBy

(* The key does not end: the lives stay.                                   *)
LEMMA KeyStays ==
  ASSUME LimiterTypeOK, NEW life, Lives(life), Tick, ttl # 1
  PROVE  Lives(life)'
<1>1. /\ Recent' \subseteq Recent /\ count' = count /\ counter' = counter
      /\ \A r \in Recent' : age'[r] = age[r] + 1
      /\ \A l \in Loss : lossAge'[l] <= lossAge[l] + 1
  BY SecondPasses
<1>2. \A r, s \in Recent' : life[r] = life[s] /\ count'[r] = count'[s] => r = s
  BY <1>1 DEF Lives
<1>3. ASSUME NEW r \in Recent'
      PROVE  /\ count'[r] \in 1..Limit
             /\ life[r] = Now => count'[r] <= counter' /\ (count'[r] = 1 => OutBy(r, ttl)')
             /\ life[r] = Before => count'[r] # 1 /\ OutBy(r, ttl)' /\ OutBy(r, disk.ttl)'
             /\ life[r] \in Loss => lossAge'[life[r]] <= age'[r]
  <2>1. r \in Recent /\ r \in Request
    BY <1>1 DEF Recent
  <2>2. /\ count[r] \in 1..Limit
        /\ life[r] = Now    => count[r] <= counter /\ (count[r] = 1 => OutBy(r, ttl))
        /\ life[r] = Before => count[r] # 1 /\ OutBy(r, ttl) /\ OutBy(r, disk.ttl)
        /\ life[r] \in Loss => lossAge[life[r]] <= age[r]
    BY <2>1 DEF Lives
  <2>3. life[r] \in Loss => lossAge'[life[r]] <= age'[r]
    <3> SUFFICES ASSUME life[r] \in Loss PROVE lossAge'[life[r]] <= age'[r]
      OBVIOUS
    <3> DEFINE l == life[r]
    <3>1. /\ lossAge[l] \in Int /\ age[r] \in Int /\ lossAge[l] <= age[r]
          /\ age'[r] = age[r] + 1 /\ lossAge'[l] <= lossAge[l] + 1
      BY <1>1, <2>1, <2>2, LimiterTypes
    <3>2. lossAge'[l] \in Int
      BY LimiterTypeStep, LimiterTypes, AgedType DEF Tick, LimiterTypeOK
    <3> QED
      BY <3>1, <3>2
  <2> QED
    BY <1>1, <2>2, <2>3, OutByLater
<1> QED
  BY <1>2, <1>3 DEF Lives

(* The key ends as its time to live says: what is still recent of this     *)
(* life is now of the life before, and nobody is of that one.              *)
LEMMA KeyEnds ==
  ASSUME LimiterTypeOK, KeyInv, NEW life \in [Request -> Life], Lives(life), Tick, ttl = 1
  PROVE  Lives([r \in Request |-> IF life[r] = Now THEN Before ELSE life[r]])'
<1> DEFINE next == [r \in Request |-> IF life[r] = Now THEN Before ELSE life[r]]
<1>1. /\ Recent' \subseteq Recent /\ count' = count
      /\ \A r \in Recent' : age'[r] = age[r] + 1
      /\ \A l \in Loss : lossAge'[l] <= lossAge[l] + 1
  BY SecondPasses
<1>2. Recent \subseteq Request
  BY DEF Recent
<1>3. ttl' = NoTtl /\ disk'.ttl = NoTtl
  BY SecondPasses, LimiterTypes DEF KeyInv
<1>4. \A r \in Recent' : OutBy(r, ttl)' /\ OutBy(r, disk.ttl)'
  BY <1>3 DEF OutBy
<1>5. ASSUME NEW r \in Recent' PROVE life[r] # Before /\ (life[r] = Now => count[r] # 1)
  BY <1>1, <1>5, OutByLater DEF Lives
<1>6. \A r \in Request : next[r] = IF life[r] = Now THEN Before ELSE life[r]
  OBVIOUS
<1> HIDE DEF next
<1>7. ASSUME NEW r \in Recent', NEW s \in Recent', next[r] = next[s], count'[r] = count'[s]
      PROVE  r = s
  <2>1. life[r] = life[s] /\ count[r] = count[s] /\ r \in Recent /\ s \in Recent
    BY <1>1, <1>2, <1>5, <1>6, <1>7
  <2> QED
    BY <2>1 DEF Lives
<1>8. ASSUME NEW r \in Recent'
      PROVE  /\ count'[r] \in 1..Limit
             /\ next[r] # Now
             /\ next[r] = Before => count'[r] # 1
             /\ next[r] \in Loss => lossAge'[next[r]] <= age'[r]
  <2>1. r \in Recent /\ r \in Request /\ count'[r] = count[r]
    BY <1>1, <1>2, <1>8
  <2>2. count[r] \in 1..Limit /\ (life[r] \in Loss => lossAge[life[r]] <= age[r])
    BY <2>1 DEF Lives
  <2>3. next[r] # Now /\ (next[r] = Before => count[r] # 1)
    BY <1>5, <1>6, <1>8, <2>1, LivesDiffer
  <2>4. next[r] \in Loss => lossAge'[next[r]] <= age'[r]
    <3> SUFFICES ASSUME next[r] \in Loss PROVE lossAge'[next[r]] <= age'[r]
      OBVIOUS
    <3>1. next[r] = life[r]
      BY <1>6, <2>1, LivesDiffer
    <3> DEFINE l == next[r]
    <3>2. /\ lossAge[l] \in Int /\ age[r] \in Int /\ lossAge[l] <= age[r]
          /\ age'[r] = age[r] + 1 /\ lossAge'[l] <= lossAge[l] + 1
      BY <1>1, <1>8, <2>1, <2>2, <3>1, LimiterTypes
    <3>3. lossAge'[l] \in Int
      BY AgedType, LimiterAssumption DEF Tick, LimiterTypeOK
    <3> QED
      BY <3>2, <3>3
  <2> QED
    BY <2>1, <2>2, <2>3, <2>4
<1>9. Lives(next)'
  BY <1>4, <1>7, <1>8 DEF Lives
<1> QED
  BY <1>9 DEF next

(* A restart cuts this life short.                                         *)
LEMMA KeyIsLost ==
  ASSUME LimiterTypeOK, KeyInv, NEW life \in [Request -> Life], Lives(life),
         NEW l \in Loss, RedisRestarts(l)
  PROVE  Lives([r \in Request |-> IF life[r] = Now THEN l ELSE life[r]])'
<1> DEFINE next == [r \in Request |-> IF life[r] = Now THEN l ELSE life[r]]
<1>1. /\ UNCHANGED <<disk, stage, count, age>> /\ Recent' = Recent
      /\ ttl' = disk.ttl /\ lossAge[l] = Window
      /\ lossAge'[l] = 0 /\ \A m \in Loss \ {l} : lossAge'[m] = lossAge[m]
  BY DEF RedisRestarts, Recent, LimiterTypeOK
<1>2. \A r \in Request : next[r] = IF life[r] = Now THEN l ELSE life[r]
  OBVIOUS
<1>3. ASSUME NEW r \in Recent PROVE r \in Request /\ age[r] < Window /\ age[r] >= 0
  BY LimiterTypes DEF Recent
<1>4. ASSUME NEW r \in Recent PROVE life[r] # l
  <2>1. age[r] \in Int /\ Window \in Int
    BY <1>3, LimiterTypes
  <2> QED
    BY <1>1, <1>3, <2>1 DEF Lives
<1> HIDE DEF next
<1>5. ASSUME NEW r \in Recent, NEW s \in Recent, next[r] = next[s], count[r] = count[s]
      PROVE  r = s
  <2>1. life[r] = life[s]
    BY <1>2, <1>3, <1>4, <1>5
  <2> QED
    BY <1>5, <2>1 DEF Lives
<1>6. ASSUME NEW r \in Recent
      PROVE  /\ count[r] \in 1..Limit
             /\ next[r] # Now
             /\ next[r] = Before => count[r] # 1 /\ OutBy(r, disk.ttl)
             /\ next[r] \in Loss => lossAge'[next[r]] <= age[r]
  <2>1. /\ count[r] \in 1..Limit
        /\ life[r] = Before => count[r] # 1 /\ OutBy(r, disk.ttl)
        /\ life[r] \in Loss => lossAge[life[r]] <= age[r]
    BY <1>6 DEF Lives
  <2>2. next[r] = IF life[r] = Now THEN l ELSE life[r]
    BY <1>2, <1>3
  <2> QED
    BY <1>1, <1>3, <1>4, <2>1, <2>2, LivesDiffer
<1>7. ASSUME NEW r \in Recent
      PROVE  OutBy(r, disk.ttl) => OutBy(r, ttl)' /\ OutBy(r, disk.ttl)'
  BY <1>1 DEF OutBy
<1>8. Lives(next)'
  BY <1>1, <1>5, <1>6, <1>7 DEF Lives
<1> QED
  BY <1>8 DEF next

(* Handlers that are over leave the lives as they are.                     *)
LEMMA OverKeepsLives ==
  ASSUME LimiterTypeOK, NEW life, Lives(life), NEW R, Over(R)
  PROVE  Lives(life)'
<1>1. \A r \in Request : IF r \in R THEN stage'[r] = "idle"
                                    ELSE /\ stage'[r] = stage[r]
                                         /\ count'[r] = count[r]
                                         /\ age'[r] = age[r]
  BY DEF Over
<1>2. Recent' \subseteq Recent
      /\ \A r \in Recent' : count'[r] = count[r] /\ age'[r] = age[r]
  BY <1>1 DEF Recent
<1>3. UNCHANGED <<counter, ttl, disk, lossAge>>
  BY DEF Over
<1> QED
  BY <1>2, <1>3, SameLives, LimiterTypes

(* Every step leaves the lives of the key as Lives says.                   *)
LEMMA LivesStep ==
  ASSUME LimiterInv, [LimiterNext]_limiterVars
  PROVE  (\E life \in [Request -> Life] : Lives(life))'
<1>1. PICK life \in [Request -> Life] : Lives(life)
  BY DEF LimiterInv
<1>2. LimiterTypeOK /\ KeyInv
  BY DEF LimiterInv
<1>3. /\ counter \in Int /\ Next1(counter) \in Int /\ Next1(counter) >= counter
      /\ counter >= 0 /\ Window \in Int /\ Window >= 0
  BY <1>2, LimiterTypes, LimiterAssumption DEF Next1, Enough
<1> SUFFICES \E next \in [Request -> Life] : Lives(next)'
  OBVIOUS
<1>4. ASSUME NEW r \in Request, Incr(r) PROVE \E next \in [Request -> Life] : Lives(next)'
  <2>1. [life EXCEPT ![r] = Now] \in [Request -> Life]
    BY LivesDiffer
  <2> QED
    BY <1>1, <1>2, <1>4, <2>1, NewCount
<1>5. ASSUME NEW r \in Request, IncrUnanswered(r) \/ IncrFails(r) \/ ExpireFails(r) \/ Serve(r)
      PROVE  Lives(life)'
  <2>1. /\ \A q \in Request : q # r => stage'[q] = stage[q] /\ age'[q] = age[q]
        /\ UNCHANGED <<ttl, disk, count, lossAge>>
    BY <1>2, <1>5 DEF IncrUnanswered, IncrFails, ExpireFails, Serve, LimiterTypeOK
  <2>2. counter' \in Int /\ counter' >= counter
    BY <1>3, <1>5 DEF IncrUnanswered, IncrFails, ExpireFails, Serve
  <2>3. r \in Recent' => r \in Recent /\ age'[r] = age[r]
    <3>1. CASE IncrUnanswered(r) \/ IncrFails(r)
      BY <1>2, <3>1 DEF IncrUnanswered, IncrFails, LimiterTypeOK, Recent
    <3>2. CASE ExpireFails(r)
      BY <3>2 DEF ExpireFails, Recent
    <3>3. CASE Serve(r)
      BY <3>3 DEF Serve, Decides, Recent
    <3> QED
      BY <1>5, <3>1, <3>2, <3>3
  <2>4. Recent' \subseteq Recent
        /\ \A q \in Recent' : count'[q] = count[q] /\ age'[q] = age[q]
    BY <2>1, <2>3 DEF Recent
  <2> QED
    BY <1>1, <1>2, <2>1, <2>2, <2>4, SameLives
<1>6. ASSUME NEW r \in Request, Expire(r)
      PROVE  \E next \in [Request -> Life] : Lives(next)'
  <2>1. UNCHANGED <<disk, count, age, lossAge>>
    BY <1>6 DEF Expire
  <2>2. Recent' \subseteq Recent
        /\ \A q \in Recent' : count'[q] = count[q] /\ age'[q] = age[q]
    <3>1. \A q \in Request : q # r => stage'[q] = stage[q]
      BY <1>2, <1>6 DEF Expire, LimiterTypeOK
    <3>2. stage[r] = "counted"
      BY <1>6 DEF Expire
    <3> QED
      BY <2>1, <3>1, <3>2 DEF Recent
  <2>3. CASE Window = 0
    <3>1. Recent' = {}
      <4>1. \A q \in Request : age'[q] = 0
        BY <1>2, <2>1, <2>3, LimiterTypes
      <4> QED
        BY <2>3, <4>1 DEF Recent
    <3> QED
      BY <1>1, <3>1 DEF Lives
  <2>4. CASE Window # 0
    <3>1. counter' = counter /\ ttl' \in {ttl, NoTtl, Window}
      BY <1>6, <2>4 DEF Expire
    <3> QED
      BY <1>1, <1>2, <1>3, <2>1, <2>2, <3>1, SameLives
  <2> QED
    BY <2>3, <2>4
<1>7. ASSUME NEW R, Over(R) PROVE Lives(life)'
  BY <1>1, <1>2, <1>7, OverKeepsLives
<1>8. CASE Tick
  <2>1. CASE ttl # 1
    BY <1>1, <1>2, <1>8, <2>1, KeyStays
  <2>2. CASE ttl = 1
    <3>1. [r \in Request |-> IF life[r] = Now THEN Before ELSE life[r]] \in [Request -> Life]
      BY LivesDiffer
    <3> QED
      BY <1>1, <1>2, <1>8, <2>2, <3>1, KeyEnds
  <2> QED
    BY <1>1, <2>1, <2>2
<1>9. CASE Save
  <2>1. UNCHANGED <<counter, ttl, stage, count, age, lossAge>> /\ disk'.ttl = ttl
    BY <1>9 DEF Save, Key
  <2>2. Recent' = Recent
    BY <2>1 DEF Recent
  <2> QED
    BY <1>1, <1>2, <1>3, <2>1, <2>2, SameLives
<1>10. ASSUME NEW l \in Loss, RedisRestarts(l)
       PROVE  \E next \in [Request -> Life] : Lives(next)'
  <2>1. [r \in Request |-> IF life[r] = Now THEN l ELSE life[r]] \in [Request -> Life]
    BY DEF Life
  <2> QED
    BY <1>1, <1>2, <1>10, <2>1, KeyIsLost
<1>11. CASE UNCHANGED limiterVars
  <2>1. Recent' = Recent /\ UNCHANGED limiterVars
    BY <1>11 DEF limiterVars, Recent
  <2> QED
    BY <1>1, <2>1 DEF limiterVars, Lives, OutBy
<1> QED
  BY <1>1, <1>4, <1>5, <1>6, <1>7, <1>8, <1>9, <1>10, <1>11
  DEF LimiterNext, Refuse, Forget, AppDies

(* The inductive invariant.                                                *)
THEOREM LimiterInvariant == LimiterSpec => []LimiterInv
<1>1. LimiterInit => LimiterInv
  <2> SUFFICES ASSUME LimiterInit PROVE LimiterInv
    OBVIOUS
  <2>1. Recent = {}
    BY DEF LimiterInit, Recent
  <2>2. [r \in Request |-> Now] \in [Request -> Life] /\ Lives([r \in Request |-> Now])
    BY <2>1, LivesDiffer DEF Lives
  <2>3. KeyInv
    BY DEF LimiterInit, KeyInv, NoKey, NoTtl
  <2> QED
    BY <2>2, <2>3, LimiterInitTypes DEF LimiterInv
<1>2. LimiterInv /\ [LimiterNext]_limiterVars => LimiterInv'
  <2> SUFFICES ASSUME LimiterInv, [LimiterNext]_limiterVars PROVE LimiterInv'
    OBVIOUS
  <2>1. LimiterTypeOK' /\ KeyInv'
    BY LimiterTypeStep, KeyStep DEF LimiterInv
  <2> QED
    BY <2>1, LivesStep DEF LimiterInv
<1> QED
  BY <1>1, <1>2, PTL DEF LimiterSpec

-----------------------------------------------------------------------------

(* The places a recent request can have: a life that has one, and a count; *)
(* but for the first count of the life before.                             *)
Recalled == Losses \cup {Now, Before}
Places   == (Recalled \X (1..Limit)) \ {<<Before, 1>>}

LEMMA PlacesCounted ==
  /\ IsFiniteSet(Places) /\ Cardinality(Losses) \in Nat
  /\ Limit > 0 => Cardinality(Places) = (2 + Cardinality(Losses)) * Limit - 1
<1>1. Losses \subseteq Loss
  BY DEF Losses
<1>2. IsFiniteSet(Losses) /\ Cardinality(Losses) \in Nat
  BY <1>1, FiniteAssumption, FS_Subset, FS_CardinalityType
<1> DEFINE others == Losses \cup {Now}
<1>3. IsFiniteSet(others) /\ Cardinality(others) = Cardinality(Losses) + 1
  BY <1>1, <1>2, LivesDiffer, FS_AddElement
<1>4. Recalled = others \cup {Before} /\ Before \notin others
  BY <1>1, LivesDiffer DEF Recalled
<1> HIDE DEF others
<1>5. IsFiniteSet(Recalled) /\ Cardinality(Recalled) = Cardinality(Losses) + 2
  <2>1. IsFiniteSet(others \cup {Before})
        /\ Cardinality(others \cup {Before}) = Cardinality(others) + 1
    BY <1>3, <1>4, FS_AddElement
  <2>2. Cardinality(Losses) + 1 + 1 = Cardinality(Losses) + 2
    BY <1>2
  <2> QED
    BY <1>3, <1>4, <2>1, <2>2
<1>6. IsFiniteSet(1..Limit) /\ Cardinality(1..Limit) = Limit
  BY FS_Interval, LimiterAssumption
<1> DEFINE Full == Recalled \X (1..Limit)
<1>7. IsFiniteSet(Full) /\ Cardinality(Full) = Cardinality(Recalled) * Cardinality(1..Limit)
  BY <1>5, <1>6, FS_Product
<1>8. Limit > 0 => <<Before, 1>> \in Full
  BY <1>4, LimiterAssumption
<1> HIDE DEF Full
<1>9. /\ IsFiniteSet(Full \ {<<Before, 1>>})
      /\ Limit > 0 => Cardinality(Full \ {<<Before, 1>>}) = Cardinality(Full) - 1
  BY <1>7, <1>8, FS_RemoveElement
<1>10. Places = Full \ {<<Before, 1>>}
  BY DEF Places, Full
<1>11. Cardinality(Full) = (2 + Cardinality(Losses)) * Limit
  <2>1. Cardinality(Losses) + 2 = 2 + Cardinality(Losses)
    BY <1>2
  <2> QED
    BY <1>5, <1>6, <1>7, <2>1
<1> QED
  BY <1>2, <1>9, <1>10, <1>11

(* Every recent request has a place of its own.                            *)
LEMMA RecentPlaced ==
  ASSUME LimiterTypeOK, NEW life \in [Request -> Life], Lives(life)
  PROVE  IsFiniteSet(Recent) /\ Cardinality(Recent) <= Cardinality(Places)
<1> DEFINE place == [r \in Recent |-> <<life[r], count[r]>>]
<1>1. ASSUME NEW r \in Recent PROVE <<life[r], count[r]>> \in Places
  <2>1. r \in Request /\ age[r] < Window /\ life[r] \in Life
    BY <1>1 DEF Recent
  <2>2. count[r] \in 1..Limit /\ (life[r] = Before => count[r] # 1)
    BY <1>1 DEF Lives
  <2>3. life[r] \in Loss => life[r] \in Losses
    <3> SUFFICES ASSUME life[r] \in Loss PROVE lossAge[life[r]] < Window
      BY DEF Losses
    <3> DEFINE l == life[r]
    <3>1. lossAge[l] <= age[r]
      BY <1>1 DEF Lives
    <3>2. lossAge[l] \in Int /\ age[r] \in Int /\ Window \in Int
      BY <2>1, LimiterTypes
    <3> QED
      BY <2>1, <3>1, <3>2
  <2>4. life[r] \in Recalled
    BY <2>1, <2>3 DEF Life, Recalled
  <2> QED
    BY <2>2, <2>4 DEF Places
<1>2. place \in [Recent -> Places]
  BY <1>1
<1>3. \A r, s \in Recent : place[r] = place[s] => r = s
  BY DEF Lives
<1>4. place \in Injection(Recent, Places)
  BY <1>2, <1>3 DEF Injection, IsInjective
<1> QED
  BY <1>4, PlacesCounted, FS_Injection

(* In any window pass at most the limit of two periods, less the request   *)
(* that created the first, the limit once more for every restart of Redis, *)
(* and the requests Redis does not answer: for any number of handlers,     *)
(* whatever fails, and whichever handler's EXPIRE arrives when             *)
(* (middleware.go:13-25).                                                  *)
THEOREM PassingIsBounded == LimiterSpec => []LimitsPerWindow
<1>1. ASSUME LimiterInv PROVE LimitsPerWindow
  <2>1. PICK life \in [Request -> Life] : Lives(life)
    BY <1>1 DEF LimiterInv
  <2>2. IsFiniteSet(Recent) /\ Cardinality(Recent) <= Cardinality(Places)
    BY <1>1, <2>1, RecentPlaced DEF LimiterInv
  <2>3. IsFiniteSet(Uncounted) /\ Cardinality(Uncounted) \in Nat
    <3>1. Uncounted \subseteq Request
      BY DEF Uncounted
    <3> QED
      BY <3>1, FiniteAssumption, FS_Subset, FS_CardinalityType
  <2>4. CASE Limit = 0
    <3>1. Recent = {}
      BY <2>1, <2>4 DEF Lives
    <3> QED
      BY <2>4, <3>1 DEF LimitsPerWindow, Passing
  <2>5. CASE Limit # 0
    <3>1. /\ Cardinality(Places) = (2 + Cardinality(Losses)) * Limit - 1
          /\ Cardinality(Losses) \in Nat /\ Cardinality(Recent) \in Nat
      BY <2>2, <2>5, LimiterAssumption, PlacesCounted, FS_CardinalityType
    <3>2. Cardinality(Recent \cup Uncounted)
            = Cardinality(Recent) + Cardinality(Uncounted) - Cardinality(Recent \cap Uncounted)
      BY <2>2, <2>3, FS_Union
    <3>3. Cardinality(Recent \cap Uncounted) \in Nat
      BY <2>2, FS_Intersection, FS_CardinalityType
    <3> DEFINE bound == (2 + Cardinality(Losses)) * Limit
    <3>4. bound \in Int
      BY <3>1, LimiterAssumption
    <3>5. Cardinality(Recent) <= bound - 1
      BY <2>2, <3>1
    <3> HIDE DEF bound
    <3>6. Cardinality(Recent \cup Uncounted) < bound + Cardinality(Uncounted)
      BY <2>3, <3>1, <3>2, <3>3, <3>4, <3>5
    <3> QED
      BY <3>6 DEF LimitsPerWindow, Passing, bound
  <2> QED
    BY <2>4, <2>5
<1> QED
  BY LimiterInvariant, <1>1, PTL

=============================================================================

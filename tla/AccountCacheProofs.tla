-------------------------- MODULE AccountCacheProofs --------------------------
(***************************************************************************)
(* Theorems about AccountCache, for all keys, callers, transactions and    *)
(* bounds.                                                                 *)
(*                                                                         *)
(* MissingOnlyIfFailed and LiveUnlessLostOrHidden each need an invariant   *)
(* of their own on top: where every key of the transaction being simulated *)
(* is (AllAccountedFor), and what a cached copy that is behind the chain   *)
(* still has coming (Told).  The clock needs to be compared with the slot  *)
(* that was last read and with the stream's, for as long as the stream has *)
(* not gone back (ClockOK).                                                *)
(***************************************************************************)
EXTENDS AccountCache, TLAPS

-----------------------------------------------------------------------------
\* The inductive invariant, one part per group of variables.

IsNewest(s, slots) == s \in slots /\ \A t \in slots : t <= s

\* Two keys are never written in the same slot, after the first.
ChainOK ==
    /\ slot \in Nat /\ 1 <= slot /\ slot <= MaxSlot
    /\ written \in [Key -> SUBSET (1..slot)]
    /\ \A k \in Key : \E m \in written[k] : IsNewest(m, written[k])
    /\ \A j, k \in Key : \A s \in written[j] : s \in written[k] /\ 1 < s => j = k

StreamOK ==
    /\ stream \in {"connecting", "open", "storing", "sleeping"}
    /\ told \in 1..slot
    /\ backoff \in FirstBackoff..MaxBackoff
    /\ stream_slot \in 0..slot
    /\ IF stream = "storing"
       THEN update \in [key : Streamed, slot : 1..slot] /\ update.slot \in written[update.key] \cup Skipped
       ELSE update = NoUpdate

CopiesOK ==
    /\ Cached \subseteq Key
    /\ \A k \in Cached : cache[k] \in written[k] \cup Skipped
    /\ lost \cup hidden \subseteq Key

Steps == {"idle", "look", "ask", "insert", "done", "load", "warp", "inject"}

\* What an asker still has to look for and does not find was not there when it
\* began: nothing leaves the cache.
AskOK ==
    /\ pc \in [Asker -> Steps]
    /\ todo \in [Asker -> Seq(Key)] /\ tx \in [Asker -> Seq(Key)]
    /\ cold \in [Asker -> SUBSET Key]
    /\ answer \in [Asker -> Nat] /\ failed \in [Asker -> SUBSET Key]
    /\ \A a \in Asker :
         /\ pc[a] \in {"look", "ask", "insert"} => KeysOf(todo[a]) \ Cached \subseteq cold[a]
         /\ pc[a] \in {"ask", "insert"} => todo[a] # <<>> /\ Head(todo[a]) \in cold[a]
         /\ pc[a] = "insert" => answer[a] \in written[Head(todo[a])]

\* The slot read under the mutex lies between the clock and the stream's slot,
\* unless the stream went back before, or since.
ClockOK ==
    /\ pc[Prefetcher] \in {"look", "ask", "insert", "done"}
    /\ pc[Prefetcher] # "done" => svm_slot = 0 /\ \A c \in Caller : pc[c] = "idle"
    /\ \A a \in Asker : pc[a] \in {"load", "warp", "inject"} <=> holder = a
    /\ live_slot \in [Asker -> 0..slot]
    /\ svm_slot \in 0..slot
    /\ {fallen, falling} \subseteq BOOLEAN
    /\ \A a \in Asker :
         pc[a] = "warp" => /\ falling \/ svm_slot <= live_slot[a]
                           /\ fallen \/ live_slot[a] <= stream_slot
    /\ fallen \/ svm_slot <= stream_slot \/ \E a \in Asker : pc[a] = "warp"

IInv == ChainOK /\ StreamOK /\ CopiesOK /\ AskOK /\ ClockOK

-----------------------------------------------------------------------------
\* What taking the first element of a sequence leaves.
LEMMA HeadAndTail ==
    ASSUME NEW S, NEW s \in Seq(S), s # <<>>
    PROVE  /\ Head(s) \in S /\ Head(s) = s[1] /\ 1 \in 1..Len(s)
           /\ Tail(s) \in Seq(S)
           /\ \A i \in 1..Len(Tail(s)) : i + 1 \in 1..Len(s) /\ Tail(s)[i] = s[i + 1]
  OBVIOUS

\* The same, of the keys in it.
LEMMA KeysOfTail ==
    ASSUME NEW S, NEW s \in Seq(S), s # <<>>
    PROVE  Head(s) \in KeysOf(s) /\ KeysOf(Tail(s)) \subseteq KeysOf(s)
  BY HeadAndTail DEF KeysOf

LEMMA KeysOfSeq ==
    ASSUME NEW S, NEW s \in Seq(S)
    PROVE  KeysOf(s) \subseteq S
  BY DEF KeysOf

\* An insert adds or replaces one copy and leaves the others.
LEMMA OneCopyChanged ==
    ASSUME NEW k, NEW v, cache' = With(cache, k, v)
    PROVE  /\ Cached' = Cached \cup {k}
           /\ cache'[k] = v
           /\ \A x \in Cached : x # k => cache'[x] = cache[x]
  BY DEF With, Cached

-----------------------------------------------------------------------------
\* What the chain skipped it has not written.
LEMMA SkippedFacts ==
    ASSUME NEW s
    PROVE  s \in Skipped <=> s \in 1..slot /\ \A k \in Key : s \notin written[k]
  BY DEF Skipped

\* The parts depend on few variables each.
LEMMA FrameFacts ==
    /\ ChainOK /\ UNCHANGED chainVars => ChainOK'
    /\ StreamOK /\ UNCHANGED <<chainVars, streamVars>> => StreamOK'
    /\ CopiesOK /\ UNCHANGED <<chainVars, cache, lost, hidden>> => CopiesOK'
    /\ AskOK /\ UNCHANGED <<written, cache, askVars>> => AskOK'
    /\ ClockOK /\ UNCHANGED <<slot, stream_slot, pc, simVars, backVars>> => ClockOK'
  BY DEF ChainOK, StreamOK, CopiesOK, AskOK, ClockOK, chainVars, streamVars, askVars, simVars,
         backVars, Cached, KeysOf, Skipped

\* A later slot of the chain disturbs neither the stream nor the copies.
LEMMA ChainGrows ==
    ASSUME IInv, slot' = slot + 1, slot < MaxSlot, UNCHANGED <<streamVars, cache, askVars, simVars, hidden, backVars>>,
           lost' \subseteq Key,
           \A x \in Key : written[x] \subseteq written'[x],
           \A s \in Skipped : s \in Skipped'
    PROVE  StreamOK' /\ CopiesOK' /\ AskOK' /\ ClockOK'
  <1>0. slot \in Nat /\ slot' \in Nat /\ 0..slot \subseteq 0..slot' /\ 1..slot \subseteq 1..slot'
    BY DEF IInv, ChainOK
  <1>1. StreamOK'
    <2>1. UNCHANGED <<stream, told, update, backoff, stream_slot>>
      BY DEF streamVars
    <2>2. CASE stream = "storing"
      <3>1. update \in [key : Streamed, slot : 1..slot] /\ update.slot \in written[update.key] \cup Skipped
        BY <2>2 DEF IInv, StreamOK
      <3>2. update.key \in Key
        BY <3>1, CacheAssumption DEF CacheAssumption
      <3>3. update \in [key : Streamed, slot : 1..slot']
        BY <1>0, <3>1
      <3>4. update.slot \in written'[update.key] \cup Skipped'
        BY <3>1, <3>2
      <3> QED
        BY <1>0, <2>1, <2>2, <3>3, <3>4 DEF IInv, StreamOK
    <2>3. CASE stream # "storing"
      BY <1>0, <2>1, <2>3 DEF IInv, StreamOK, NoUpdate
    <2> QED
      BY <2>2, <2>3
  <1>2. CopiesOK'
    BY DEF IInv, CopiesOK, Cached
  <1>3. AskOK'
    <2>1. \A a \in Asker : pc[a] = "insert" => answer[a] \in written'[Head(todo[a])]
      <3> SUFFICES ASSUME NEW a \in Asker, pc[a] = "insert"
                   PROVE  answer[a] \in written'[Head(todo[a])]
        OBVIOUS
      <3>1. todo[a] \in Seq(Key) /\ todo[a] # <<>> /\ answer[a] \in written[Head(todo[a])]
        BY DEF IInv, AskOK
      <3>2. Head(todo[a]) \in Key
        BY <3>1, HeadAndTail
      <3> QED
        BY <3>1, <3>2
    <2> QED
      BY <2>1 DEF IInv, AskOK, askVars, Cached, KeysOf
  <1>4. ClockOK'
    BY <1>0 DEF IInv, ClockOK, streamVars, askVars, simVars, backVars
  <1> QED
    BY <1>1, <1>2, <1>3, <1>4

\* The start is in the invariant.
LEMMA InitIInv == Init => IInv
  <1> SUFFICES ASSUME Init PROVE IInv
    OBVIOUS
  <1>0. /\ MaxSlot \in Nat \ {0} /\ FirstBackoff \in Nat /\ MaxBackoff \in Nat
        /\ FirstBackoff <= MaxBackoff /\ Warm \in Seq(Key) /\ Prefetcher \in Asker
        /\ NoCaller \notin Asker
    BY CacheAssumption DEF CacheAssumption, Asker
  <1>1. ChainOK
    <2>1. written = [k \in Key |-> {1}] /\ slot = 1
      BY DEF Init
    <2> QED
      BY <1>0, <2>1 DEF ChainOK, IsNewest
  <1>2. StreamOK
    BY <1>0 DEF Init, StreamOK
  <1>3. Cached = {}
    BY DEF Init, Cached
  <1>4. CopiesOK
    BY <1>3 DEF Init, CopiesOK
  <1>5. KeysOf(Warm) \subseteq Key
    BY <1>0, KeysOfSeq
  <1>6. AskOK
    BY <1>0, <1>5 DEF Init, AskOK, Steps
  <1>7. ClockOK
    <2>1. /\ Prefetcher \notin Caller /\ slot = 1 /\ svm_slot = 0 /\ stream_slot \in {0, 1}
          /\ live_slot = [a \in Asker |-> 0] /\ holder = NoCaller
          /\ \A a \in Asker : pc[a] = IF a = Prefetcher THEN "look" ELSE "idle"
      BY CacheAssumption DEF CacheAssumption, Init
    <2>2. {fallen, falling} \subseteq BOOLEAN
      BY Zenon DEF Init
    <2>3. svm_slot <= stream_slot
      BY <2>1
    <2> QED
      BY <1>0, <2>1, <2>2, <2>3 DEF ClockOK, Asker
  <1> QED
    BY <1>1, <1>2, <1>4, <1>6, <1>7 DEF IInv

\* A write on the chain.
LEMMA WriteIInv ==
    ASSUME NEW k \in Changing, IInv, Write(k)
    PROVE  IInv'
  <1>0. k \in Key /\ MaxSlot \in Nat
    BY CacheAssumption DEF CacheAssumption
  <1>1. /\ slot \in Nat /\ 1 <= slot /\ slot < MaxSlot /\ slot' = slot + 1
        /\ written \in [Key -> SUBSET (1..slot)]
        /\ written' = [written EXCEPT ![k] = @ \cup {slot'}]
    BY DEF IInv, ChainOK, Write
  <1>2. /\ written'[k] = written[k] \cup {slot'}
        /\ \A x \in Key \ {k} : written'[x] = written[x]
    BY <1>0, <1>1
  <1>3. ChainOK'
    <2>1. written' \in [Key -> SUBSET (1..slot')]
      BY <1>0, <1>1
    <2>2. \A i, j \in Key : \A s \in written'[i] : s \in written'[j] /\ 1 < s => i = j
      <3> SUFFICES ASSUME NEW i \in Key, NEW j \in Key, NEW s \in written'[i], s \in written'[j], 1 < s
                   PROVE  i = j
        OBVIOUS
      <3>1. \A x \in Key : slot' \notin written[x]
        BY <1>1
      <3> QED
        BY <1>2, <3>1 DEF IInv, ChainOK
    <2>3. \A j \in Key : \E m \in written'[j] : IsNewest(m, written'[j])
      <3>1. IsNewest(slot', written'[k])
        BY <1>0, <1>1, <1>2 DEF IsNewest
      <3> QED
        BY <1>2, <3>1 DEF IInv, ChainOK, IsNewest
    <2>4. slot' \in Nat /\ 1 <= slot' /\ slot' <= MaxSlot
      BY <1>0, <1>1
    <2> QED
      BY ONLY <2>1, <2>2, <2>3, <2>4 DEF ChainOK
  <1>4. \A x \in Key : written[x] \subseteq written'[x]
    BY <1>2
  <1>5. \A s \in Skipped : s \in Skipped'
    <2> SUFFICES ASSUME NEW s \in Skipped
                 PROVE  s \in 1..slot' /\ \A x \in Key : s \notin written'[x]
      BY DEF Skipped
    <2>1. s \in 1..slot /\ \A x \in Key : s \notin written[x]
      BY SkippedFacts
    <2> QED
      BY <1>1, <1>2, <2>1
  <1>6. lost' \subseteq Key
    BY <1>0 DEF Write, IInv, CopiesOK
  <1>7. StreamOK' /\ CopiesOK' /\ AskOK' /\ ClockOK'
    <2>1. UNCHANGED <<streamVars, cache, askVars, simVars, hidden, backVars>>
      BY DEF Write
    <2> QED
      BY <1>1, <1>4, <1>5, <1>6, <2>1, ChainGrows
  <1> QED
    BY <1>3, <1>7 DEF IInv

\* A slot without a block.
LEMMA SkipIInv ==
    ASSUME IInv, Skip
    PROVE  IInv'
  <1>1. /\ slot \in Nat /\ 1 <= slot /\ slot < MaxSlot /\ slot' = slot + 1 /\ written' = written
        /\ MaxSlot \in Nat
    BY CacheAssumption DEF CacheAssumption, IInv, ChainOK, Skip
  <1>2. ChainOK'
    <2>1. written \in [Key -> SUBSET (1..slot')]
      BY <1>1 DEF IInv, ChainOK
    <2> QED
      BY <1>1, <2>1 DEF IInv, ChainOK
  <1>3. \A s \in Skipped : s \in Skipped'
    <2> SUFFICES ASSUME NEW s \in Skipped
                 PROVE  s \in 1..slot' /\ \A x \in Key : s \notin written'[x]
      BY DEF Skipped
    <2> QED
      BY <1>1, SkippedFacts
  <1>4. StreamOK' /\ CopiesOK' /\ AskOK' /\ ClockOK'
    <2>1. UNCHANGED <<streamVars, cache, askVars, simVars, hidden, backVars>> /\ lost' \subseteq Key
      BY DEF Skip, IInv, CopiesOK
    <2> QED
      BY <1>1, <1>3, <2>1, ChainGrows
  <1> QED
    BY <1>2, <1>4 DEF IInv

\* The steps of the subscription task.
LEMMA SubscriptionIInv ==
    ASSUME IInv, Subscription
    PROVE  IInv'
  <1>1. /\ ChainOK' /\ UNCHANGED <<slot, written, askVars, simVars, falling>> /\ Skipped' = Skipped
    BY FrameFacts DEF IInv, Subscription, chainVars, Skipped
  <1>a. UNCHANGED pc
    BY <1>1 DEF askVars
  <1>b. ASSUME UNCHANGED <<cache, stream_slot, fallen, hidden>>, lost' \subseteq Key, StreamOK'
        PROVE  IInv'
    <2>1. CopiesOK'
      BY <1>1, <1>b DEF IInv, CopiesOK, Cached
    <2>2. AskOK' /\ ClockOK'
      BY <1>1, <1>a, <1>b, FrameFacts DEF IInv, backVars
    <2> QED
      BY <1>1, <1>b, <2>1, <2>2 DEF IInv
  <1>2. CASE Connects
    <2>1. StreamOK'
      BY <1>1, <1>2 DEF IInv, StreamOK, ChainOK, Connects
    <2> QED
      BY <1>2, <1>b, <2>1 DEF Connects, IInv, CopiesOK
  <1>3. CASE StreamEnds
    <2>1. StreamOK'
      BY <1>1, <1>3 DEF IInv, StreamOK, ChainOK, StreamEnds
    <2>2. lost' \subseteq Key
      BY <1>3, CacheAssumption DEF CacheAssumption, StreamEnds, Ahead, IInv, CopiesOK
    <2> QED
      BY <1>3, <1>b, <2>1, <2>2 DEF StreamEnds
  <1>4. CASE Reconnect
    <2>1. backoff' \in FirstBackoff..MaxBackoff
      BY <1>4, CacheAssumption DEF CacheAssumption, IInv, StreamOK, Reconnect, Lower
    <2>2. StreamOK'
      BY <1>1, <1>4, <2>1 DEF IInv, StreamOK, Reconnect
    <2> QED
      BY <1>4, <1>b, <2>2 DEF Reconnect, IInv, CopiesOK
  <1>5. CASE StoreSlot
    <2>1. PICK u \in [key : Streamed, slot : 2..slot] :
                 /\ TellsNext(u) /\ update' = u /\ stream_slot' = u.slot
                 /\ fallen' = (fallen \/ u.slot < stream_slot)
      BY <1>5 DEF StoreSlot
    <2>2. stream = "open" /\ stream' = "storing" /\ UNCHANGED <<backoff, cache, lost, hidden>>
      BY <1>5 DEF StoreSlot
    <2>3. slot \in Nat /\ u.slot \in 2..slot /\ u.key \in Streamed
      BY DEF IInv, ChainOK
    <2>4. u.slot \in written[u.key] \cup Skipped /\ told' \in {told, u.slot}
      BY <2>1 DEF TellsNext
    <2>5. StreamOK'
      <3>1. u \in [key : Streamed, slot : 1..slot] /\ u.slot \in 0..slot /\ u.slot \in 1..slot
        BY <2>3
      <3>2. told' \in 1..slot
        BY <2>4, <3>1 DEF IInv, StreamOK
      <3> QED
        BY <1>1, <2>1, <2>2, <2>4, <3>1, <3>2 DEF IInv, StreamOK
    <2>6. CopiesOK' /\ AskOK'
      <3>1. UNCHANGED <<chainVars, written, cache, askVars, lost, hidden>>
        BY <1>1, <2>2 DEF chainVars
      <3> QED
        BY <3>1, FrameFacts DEF IInv
    <2>7. ClockOK'
      <3>1. UNCHANGED <<pc, live_slot, holder, svm_slot, injected, falling, slot>>
        BY <1>1, <1>a DEF simVars
      <3>2. stream_slot \in Nat /\ u.slot \in Nat
        BY <2>3 DEF IInv, StreamOK, ChainOK
      <3>a. fallen' \in BOOLEAN /\ (fallen' \/ (~fallen /\ ~(u.slot < stream_slot)))
        BY <2>1, Zenon
      <3>b. ~(u.slot < stream_slot) => stream_slot <= stream_slot'
        BY <2>1, <3>2
      <3>3. fallen' \in BOOLEAN /\ (fallen' \/ (~fallen /\ stream_slot <= stream_slot'))
        BY <3>a, <3>b, Zenon
      <3>4. svm_slot \in Nat /\ \A a \in Asker : live_slot[a] \in Nat
        BY DEF IInv, ClockOK, ChainOK
      <3>5. \A a \in Asker : pc[a] = "warp" => fallen' \/ live_slot[a] <= stream_slot'
        <4> SUFFICES ASSUME NEW a \in Asker, pc[a] = "warp", ~fallen'
                     PROVE  live_slot[a] <= stream_slot'
          OBVIOUS
        <4>1. live_slot[a] <= stream_slot
          BY <3>3 DEF IInv, ClockOK
        <4> QED
          BY <2>1, <3>2, <3>3, <3>4, <4>1
      <3>6. fallen' \/ svm_slot <= stream_slot' \/ \E a \in Asker : pc[a] = "warp"
        <4> SUFFICES ASSUME ~fallen', ~(\E a \in Asker : pc[a] = "warp")
                     PROVE  svm_slot <= stream_slot'
          OBVIOUS
        <4>1. svm_slot <= stream_slot
          BY <3>3 DEF IInv, ClockOK
        <4> QED
          BY <2>1, <3>2, <3>3, <3>4, <4>1
      <3> QED
        BY <3>1, <3>3, <3>5, <3>6 DEF IInv, ClockOK
    <2> QED
      BY <1>1, <2>5, <2>6, <2>7 DEF IInv
  <1>6. CASE InsertUpdate
    <2>1. /\ stream = "storing" /\ update \in [key : Streamed, slot : 1..slot]
          /\ update.slot \in written[update.key] \cup Skipped
          /\ stream' = "open" /\ update' = NoUpdate /\ UNCHANGED <<told, backoff, stream_slot, fallen>>
          /\ cache' = With(cache, update.key, update.slot)
          /\ lost' \subseteq lost /\ hidden' \subseteq hidden
      BY <1>6 DEF IInv, StreamOK, InsertUpdate
    <2>2. PICK k, v : k = update.key /\ v = update.slot
      OBVIOUS
    <2>3. k \in Key /\ v \in written[k] \cup Skipped /\ cache' = With(cache, k, v)
      BY <2>1, <2>2, CacheAssumption DEF CacheAssumption
    <2>4. StreamOK'
      BY <1>1, <2>1 DEF IInv, StreamOK
    <2>5. Cached \subseteq Cached' /\ CopiesOK'
      <3>1. /\ Cached' = Cached \cup {k} /\ cache'[k] = v
            /\ \A x \in Cached : x # k => cache'[x] = cache[x]
        BY <2>3, OneCopyChanged
      <3> QED
        BY <1>1, <2>1, <2>3, <3>1 DEF IInv, CopiesOK
    <2>6. AskOK'
      BY <1>1, <2>5 DEF IInv, AskOK, askVars, KeysOf
    <2>7. ClockOK'
      BY <1>1, <1>a, <2>1, FrameFacts DEF IInv, backVars
    <2> QED
      BY <1>1, <2>4, <2>5, <2>6, <2>7 DEF IInv
  <1> QED
    BY <1>2, <1>3, <1>4, <1>5, <1>6 DEF Subscription

\* The steps of get_or_fetch.
LEMMA GetOrFetchIInv ==
    ASSUME NEW a \in Asker, IInv, GetOrFetch(a)
    PROVE  IInv'
  <1>1. /\ ChainOK' /\ StreamOK' /\ UNCHANGED <<slot, written, chainVars, streamVars, tx, cold, simVars, lost, backVars>>
    BY FrameFacts DEF IInv, GetOrFetch, chainVars
  <1>2. pc[a] \in {"look", "ask", "insert"} /\ pc' = [pc EXCEPT ![a] = pc'[a]]
        /\ pc'[a] \in {"look", "ask", "insert"}
    BY DEF IInv, AskOK, GetOrFetch, Look, Answered, AskFails, InsertFetched, Goto
  <1>3. ClockOK'
    <2>1. \A b \in Asker : b # a => pc'[b] = pc[b]
      BY <1>2 DEF IInv, AskOK
    <2>2. UNCHANGED <<slot, stream_slot, live_slot, holder, svm_slot, fallen, falling>>
      BY <1>1 DEF streamVars, simVars, backVars
    <2>3. \A b \in Asker : pc'[b] \in {"load", "warp", "inject"} <=> pc[b] \in {"load", "warp", "inject"}
      BY <1>2, <2>1
    <2>4. \A b \in Asker : pc'[b] = "warp" <=> pc[b] = "warp"
      BY <1>2, <2>1
    <2>5. /\ pc'[Prefetcher] \in {"look", "ask", "insert", "done"}
          /\ pc'[Prefetcher] # "done" => svm_slot = 0 /\ \A c \in Caller : pc'[c] = "idle"
      <3>1. Prefetcher \notin Caller /\ Caller \subseteq Asker /\ Prefetcher \in Asker
        BY CacheAssumption DEF CacheAssumption, Asker
      <3>2. CASE a = Prefetcher
        BY <1>2, <2>1, <3>1, <3>2 DEF IInv, ClockOK
      <3>3. CASE a \in Caller
        BY <1>2, <2>1, <3>1, <3>3 DEF IInv, ClockOK
      <3> QED
        BY <3>2, <3>3 DEF Asker
    <2> QED
      BY <2>2, <2>3, <2>4, <2>5 DEF IInv, ClockOK
  <1>4. /\ todo[a] \in Seq(Key) /\ todo[a] # <<>>
        /\ KeysOf(todo[a]) \ Cached \subseteq cold[a]
    BY DEF IInv, AskOK, GetOrFetch, Look, Answered, AskFails, InsertFetched
  <1>5. /\ Head(todo[a]) \in Key /\ Head(todo[a]) \in KeysOf(todo[a])
        /\ Tail(todo[a]) \in Seq(Key) /\ KeysOf(Tail(todo[a])) \subseteq KeysOf(todo[a])
    BY ONLY <1>4, HeadAndTail, KeysOfTail
  <1>6. CASE Look(a)
    <2>1. UNCHANGED <<cache, answer, failed, hidden>>
      BY <1>6 DEF Look
    <2>2. CopiesOK'
      BY <1>1, <2>1, FrameFacts DEF IInv
    <2>3. CASE Head(todo[a]) \in Cached
      <3>1. todo' = [todo EXCEPT ![a] = Tail(@)] /\ UNCHANGED pc
        BY <1>6, <2>3 DEF Look
      <3> QED
        BY <1>1, <1>2, <1>3, <1>4, <1>5, <1>6, <2>1, <2>2, <3>1 DEF IInv, AskOK, Cached, Look
    <2>4. CASE Head(todo[a]) \notin Cached
      <3>1. pc' = [pc EXCEPT ![a] = "ask"] /\ UNCHANGED todo
        BY <1>6, <2>4 DEF Look, Goto
      <3> QED
        BY <1>1, <1>2, <1>3, <1>4, <1>5, <2>1, <2>2, <2>4, <3>1 DEF IInv, AskOK, Cached, Steps
    <2> QED
      BY <2>3, <2>4
  <1>7. CASE Answered(a)
    <2>1. /\ UNCHANGED <<cache, todo, failed, hidden>> /\ pc[a] = "ask"
          /\ pc' = [pc EXCEPT ![a] = "insert"]
      BY <1>7 DEF Answered, Goto
    <2>2. PICK s \in written[Head(todo[a])] : answer' = [answer EXCEPT ![a] = s]
      BY <1>7 DEF Answered
    <2>3. s \in Nat
      BY <1>5, <2>2 DEF IInv, ChainOK
    <2>4. CopiesOK'
      BY <1>1, <2>1, FrameFacts DEF IInv
    <2>5. AskOK'
      BY <1>1, <1>4, <2>1, <2>2, <2>3 DEF IInv, AskOK, Cached, Steps
    <2> QED
      BY <1>1, <1>3, <2>4, <2>5 DEF IInv
  <1>8. CASE AskFails(a)
    <2>1. /\ UNCHANGED <<cache, answer, hidden>>
          /\ failed' = [failed EXCEPT ![a] = @ \cup {Head(todo[a])}]
          /\ todo' = [todo EXCEPT ![a] = Tail(@)]
          /\ pc' = [pc EXCEPT ![a] = "look"]
      BY <1>8 DEF AskFails, Goto
    <2>2. CopiesOK'
      BY <1>1, <2>1, FrameFacts DEF IInv
    <2>3. AskOK'
      BY <1>1, <1>4, <1>5, <2>1 DEF IInv, AskOK, Cached, Steps
    <2> QED
      BY <1>1, <1>3, <2>2, <2>3 DEF IInv
  <1>9. CASE InsertFetched(a)
    <2> DEFINE k == Head(todo[a])
    <2>1. /\ cache' = With(cache, k, answer[a])
          /\ hidden' \subseteq hidden \cup {k} /\ UNCHANGED failed
          /\ answer' = [answer EXCEPT ![a] = 0]
          /\ todo' = [todo EXCEPT ![a] = Tail(@)]
          /\ pc[a] = "insert" /\ pc' = [pc EXCEPT ![a] = "look"]
      BY <1>9 DEF InsertFetched, Goto
    <2>2. answer[a] \in written[k] /\ k \in Key
      BY <1>5, <2>1 DEF IInv, AskOK
    <2>3. /\ Cached' = Cached \cup {k} /\ cache'[k] = answer[a]
          /\ \A x \in Cached : x # k => cache'[x] = cache[x]
      BY <2>1, OneCopyChanged
    <2> HIDE DEF k
    <2>4. CopiesOK'
      <3>1. Skipped' = Skipped
        BY <1>1 DEF Skipped
      <3> QED
        BY <1>1, <2>1, <2>2, <2>3, <3>1 DEF IInv, CopiesOK
    <2>5. AskOK'
      BY <1>1, <1>4, <1>5, <2>1, <2>3 DEF IInv, AskOK, Steps
    <2> QED
      BY <1>1, <1>3, <2>4, <2>5 DEF IInv
  <1> QED
    BY <1>6, <1>7, <1>8, <1>9 DEF GetOrFetch

\* The steps of main and of simulate.
LEMMA SimulationIInv ==
    ASSUME IInv, Simulation
    PROVE  IInv'
  <1>1. /\ ChainOK' /\ StreamOK'
        /\ UNCHANGED <<slot, written, chainVars, streamVars, cache, answer, lost, hidden>>
    BY FrameFacts DEF IInv, Simulation, chainVars
  <1>2. CopiesOK' /\ Cached' = Cached
    BY <1>1, FrameFacts DEF IInv, Cached
  <1>3. /\ UNCHANGED <<slot, stream_slot>> /\ stream_slot \in 0..slot /\ slot \in Nat
        /\ svm_slot \in 0..slot /\ live_slot \in [Asker -> 0..slot]
    BY <1>1 DEF streamVars, IInv, StreamOK, ChainOK, ClockOK
  <1>4. Prefetcher \notin Caller /\ NoCaller \notin Asker /\ Caller \subseteq Asker /\ Prefetcher \in Asker
    BY CacheAssumption DEF CacheAssumption, Asker
  <1>5. CASE MakeSimulator
    <2>1. /\ pc[Prefetcher] = "look" /\ svm_slot' = stream_slot
          /\ pc' = [pc EXCEPT ![Prefetcher] = "done"]
          /\ failed' = [failed EXCEPT ![Prefetcher] = {}]
          /\ fallen' = FALSE /\ falling' = FALSE
          /\ UNCHANGED <<tx, todo, cold, live_slot, holder, injected>>
      BY <1>5 DEF MakeSimulator, Goto
    <2>2. AskOK'
      BY <1>1, <1>2, <2>1 DEF IInv, AskOK, Steps
    <2>3. /\ \A a \in Asker : pc'[a] = IF a = Prefetcher THEN "done" ELSE pc[a]
          /\ \A a \in Asker : pc'[a] # "warp"
      <3>1. \A a \in Asker : pc'[a] = IF a = Prefetcher THEN "done" ELSE pc[a]
        BY <1>4, <2>1 DEF IInv, AskOK
      <3> QED
        BY <2>1, <3>1 DEF IInv, ClockOK, Asker
    <2>4. {fallen', falling'} \subseteq BOOLEAN
      BY <2>1, Zenon
    <2>5. svm_slot' \in 0..slot' /\ svm_slot' <= stream_slot'
      BY <1>3, <2>1
    <2>6. ClockOK'
      BY <1>3, <1>4, <2>1, <2>3, <2>4, <2>5 DEF IInv, ClockOK
    <2> QED
      BY <1>1, <1>2, <2>2, <2>6 DEF IInv
  <1>6. ASSUME NEW c \in Caller, Begin(c) PROVE IInv'
    <2>1. PICK t \in Tx : /\ tx' = [tx EXCEPT ![c] = t] /\ todo' = [todo EXCEPT ![c] = t]
                          /\ cold' = [cold EXCEPT ![c] = KeysOf(t) \ Cached]
      BY <1>6 DEF Begin
    <2>2. /\ pc[c] = "idle" /\ pc' = [pc EXCEPT ![c] = "look"]
          /\ UNCHANGED <<failed, live_slot, holder, svm_slot, injected, fallen, falling>>
      BY <1>6 DEF Begin, Goto, simVars, backVars
    <2>3. t \in Seq(Key) /\ KeysOf(t) \subseteq Key
      BY KeysOfSeq, CacheAssumption DEF CacheAssumption
    <2>4. AskOK'
      BY <1>1, <1>2, <1>4, <2>1, <2>2, <2>3 DEF IInv, AskOK, Steps
    <2>5. pc[Prefetcher] = "done" /\ pc'[Prefetcher] = "done"
      BY <1>4, <1>6, <2>2 DEF IInv, AskOK, Begin
    <2>6. \A a \in Asker : pc'[a] = IF a = c THEN "look" ELSE pc[a]
      BY <1>4, <2>2 DEF IInv, AskOK
    <2>7. ClockOK'
      BY <1>3, <1>4, <2>2, <2>5, <2>6 DEF IInv, ClockOK
    <2> QED
      BY <1>1, <1>2, <2>4, <2>7 DEF IInv
  <1>7. ASSUME NEW c \in Caller, Lock(c) PROVE IInv'
    <2>1. /\ pc[c] = "look" /\ pc' = [pc EXCEPT ![c] = "load"]
          /\ holder = NoCaller /\ holder' = c
          /\ cold' = [cold EXCEPT ![c] = {}]
          /\ UNCHANGED <<tx, todo, failed, live_slot, svm_slot, injected, fallen, falling>>
      BY <1>7 DEF Lock, Goto, backVars
    <2>2. AskOK'
      BY <1>1, <1>2, <1>4, <2>1 DEF IInv, AskOK, Steps
    <2>3. \A a \in Asker : holder # a
      BY <1>4, <2>1
    <2>4. \A a \in Asker : pc[a] \notin {"load", "warp", "inject"}
      BY <2>3 DEF IInv, ClockOK
    <2>5. /\ \A a \in Asker : pc'[a] = IF a = c THEN "load" ELSE pc[a]
          /\ pc'[Prefetcher] = pc[Prefetcher]
      BY <1>4, <2>1 DEF IInv, AskOK
    <2>6. ClockOK'
      BY <1>3, <1>4, <2>1, <2>4, <2>5 DEF IInv, ClockOK
    <2> QED
      BY <1>1, <1>2, <2>2, <2>6 DEF IInv
  <1>8. ASSUME NEW c \in Caller, LoadSlot(c) PROVE IInv'
    <2>1. /\ pc[c] = "load" /\ pc' = [pc EXCEPT ![c] = "warp"]
          /\ live_slot' = [live_slot EXCEPT ![c] = stream_slot]
          /\ falling' = fallen /\ fallen' = FALSE
          /\ UNCHANGED <<tx, todo, cold, failed, holder, svm_slot, injected>>
      BY <1>8 DEF LoadSlot, Goto
    <2>2. AskOK'
      BY <1>1, <1>2, <1>4, <2>1 DEF IInv, AskOK, Steps
    <2>3. {fallen', falling'} \subseteq BOOLEAN
      BY <2>1, Zenon DEF IInv, ClockOK
    <2>4. /\ holder = c /\ pc[Prefetcher] = "done" /\ pc'[Prefetcher] = "done"
          /\ \A a \in Asker : pc'[a] = IF a = c THEN "warp" ELSE pc[a]
          /\ \A a \in Asker : pc[a] # "warp" /\ live_slot'[a] = IF a = c THEN stream_slot ELSE live_slot[a]
      BY <1>4, <2>1 DEF IInv, AskOK, ClockOK
    <2>5. fallen \/ svm_slot <= stream_slot
      BY <2>4 DEF IInv, ClockOK
    <2>6. falling' \/ svm_slot' <= live_slot'[c]
      BY <1>4, <2>1, <2>4, <2>5
    <2>7. live_slot'[c] <= stream_slot'
      BY <1>3, <1>4, <2>4
    <2>8. live_slot' \in [Asker -> 0..slot']
      BY <1>3, <2>1
    <2>9. ClockOK'
      BY <1>3, <1>4, <2>1, <2>3, <2>4, <2>6, <2>7, <2>8 DEF IInv, ClockOK
    <2> QED
      BY <1>1, <1>2, <2>2, <2>9 DEF IInv
  <1>9. ASSUME NEW c \in Caller, Warp(c) PROVE IInv'
    <2>1. /\ pc[c] = "warp" /\ pc' = [pc EXCEPT ![c] = "inject"]
          /\ svm_slot' = live_slot[c]
          /\ live_slot' = [live_slot EXCEPT ![c] = 0]
          /\ todo' = [todo EXCEPT ![c] = tx[c]]
          /\ falling' = FALSE
          /\ UNCHANGED <<tx, cold, failed, holder, injected, fallen>>
      BY <1>9 DEF Warp, Goto
    <2>2. AskOK'
      BY <1>1, <1>2, <1>4, <2>1 DEF IInv, AskOK, Steps
    <2>3. \A a \in Asker : pc'[a] # "warp"
      BY <1>4, <2>1 DEF IInv, AskOK, ClockOK
    <2>4. {fallen', falling'} \subseteq BOOLEAN
      BY <2>1, Zenon DEF IInv, ClockOK
    <2>5. fallen' \/ svm_slot' <= stream_slot'
      BY <1>3, <1>4, <2>1 DEF IInv, ClockOK
    <2>6. live_slot' \in [Asker -> 0..slot'] /\ svm_slot' \in 0..slot'
      BY <1>3, <1>4, <2>1
    <2>7. /\ holder = c /\ pc[Prefetcher] = "done" /\ pc'[Prefetcher] = "done"
          /\ \A a \in Asker : pc'[a] = IF a = c THEN "inject" ELSE pc[a]
      BY <1>4, <2>1 DEF IInv, AskOK, ClockOK
    <2>8. ClockOK'
      BY <1>3, <1>4, <2>1, <2>3, <2>4, <2>5, <2>6, <2>7 DEF IInv, ClockOK
    <2> QED
      BY <1>1, <1>2, <2>2, <2>8 DEF IInv
  <1>10. ASSUME NEW c \in Caller, Inject(c) PROVE IInv'
    <2>1. /\ pc[c] = "inject" /\ todo[c] # <<>> /\ todo' = [todo EXCEPT ![c] = Tail(@)]
          /\ UNCHANGED <<pc, tx, cold, failed, live_slot, holder, svm_slot, fallen, falling>>
      BY <1>10 DEF Inject, backVars
    <2>2. Tail(todo[c]) \in Seq(Key)
      BY <1>4, <2>1, HeadAndTail DEF IInv, AskOK
    <2>3. AskOK'
      BY <1>1, <1>2, <1>4, <2>1, <2>2 DEF IInv, AskOK
    <2>4. ClockOK'
      BY <1>3, <2>1 DEF IInv, ClockOK
    <2> QED
      BY <1>1, <1>2, <2>3, <2>4 DEF IInv
  <1>11. ASSUME NEW c \in Caller, Simulated(c) PROVE IInv'
    <2>1. /\ pc[c] = "inject" /\ pc' = [pc EXCEPT ![c] = "idle"]
          /\ holder' = NoCaller
          /\ tx' = [tx EXCEPT ![c] = <<>>]
          /\ failed' = [failed EXCEPT ![c] = {}]
          /\ UNCHANGED <<todo, cold, live_slot, svm_slot, fallen, falling>>
      BY <1>11 DEF Simulated, Goto, backVars
    <2>2. AskOK'
      BY <1>1, <1>2, <1>4, <2>1 DEF IInv, AskOK, Steps
    <2>3. ClockOK'
      BY <1>3, <1>4, <2>1 DEF IInv, AskOK, ClockOK
    <2> QED
      BY <1>1, <1>2, <2>2, <2>3 DEF IInv
  <1> QED
    BY <1>5, <1>6, <1>7, <1>8, <1>9, <1>10, <1>11 DEF Simulation

LEMMA NextIInv == IInv /\ [Next]_vars => IInv'
  <1> SUFFICES ASSUME IInv, [Next]_vars PROVE IInv'
    OBVIOUS
  <1>1. CASE UNCHANGED vars
    BY <1>1, FrameFacts
       DEF IInv, vars, chainVars, streamVars, askVars, simVars, backVars
  <1>2. CASE Next
    BY <1>2, WriteIInv, SkipIInv, SubscriptionIInv, GetOrFetchIInv, SimulationIInv DEF Next
  <1> QED
    BY <1>1, <1>2

\* The invariant holds in every reachable state.
THEOREM Invariant == Spec => []IInv
  BY InitIInv, NextIInv, PTL DEF Spec

-----------------------------------------------------------------------------
\* Type correctness, for every instance.
THEOREM TypeCorrect == Spec => []TypeOK
  <1>1. IInv => TypeOK
    <2> SUFFICES ASSUME IInv PROVE TypeOK
      OBVIOUS
    <2>1. slot \in Nat /\ slot <= MaxSlot /\ MaxSlot \in Nat /\ 0..slot \subseteq Slots
      BY CacheAssumption DEF CacheAssumption, IInv, ChainOK, Slots
    <2>2. stream_slot \in 0..slot /\ svm_slot \in 0..slot
      BY <2>1 DEF IInv, StreamOK, ClockOK
    <2>3. /\ told \in Slots
          /\ IF stream = "storing" THEN update \in [key : Streamed, slot : Slots] ELSE update = NoUpdate
      <3>1. 1..slot \subseteq Slots
        BY <2>1 DEF Slots
      <3> QED
        BY <3>1 DEF IInv, StreamOK
    <2>4. written \in [Key -> SUBSET Slots]
      BY <2>1 DEF IInv, ChainOK
    <2> QED
      BY <2>1, <2>2, <2>3, <2>4
         DEF IInv, StreamOK, CopiesOK, AskOK, ClockOK, TypeOK, Slots, Steps
  <1> QED
    BY <1>1, Invariant, PTL

\* get_or_fetch asks the RPC only for accounts that were missing when the
\* simulation, or the prefetch, began.
THEOREM RpcOnlyForMissing == Spec => []NoRpcForCached
  <1>1. IInv => NoRpcForCached
    BY DEF IInv, AskOK, NoRpcForCached
  <1> QED
    BY <1>1, Invariant, PTL

\* The LiteSVM's clock goes back only when the stream has, between the slot it
\* shows and the one it is set to, however its callers and the subscription
\* interleave.
THEOREM ClockBacksWithStream == Spec => ClockBackWithStream
  <1>1. IInv /\ [Next]_vars => [svm_slot' < svm_slot => falling]_svm_slot
    <2> SUFFICES ASSUME IInv, [Next]_vars, svm_slot' # svm_slot, svm_slot' < svm_slot
                 PROVE  falling
      OBVIOUS
    <2>1. svm_slot \in Nat /\ stream_slot \in Nat
      BY DEF IInv, ChainOK, StreamOK, ClockOK
    <2>2. CASE MakeSimulator
      <3>1. svm_slot = 0 /\ svm_slot' = stream_slot
        BY <2>2 DEF MakeSimulator, IInv, ClockOK
      <3> QED
        BY <2>1, <3>1
    <2>3. ASSUME NEW c \in Caller, Warp(c) PROVE falling
      <3>1. c \in Asker /\ pc[c] = "warp" /\ svm_slot' = live_slot[c]
        BY <2>3 DEF Warp, Asker
      <3>2. falling \/ svm_slot <= live_slot[c]
        BY <3>1 DEF IInv, ClockOK
      <3>3. live_slot[c] \in Nat
        BY <3>1 DEF IInv, ClockOK, ChainOK
      <3> QED
        BY <2>1, <3>1, <3>2, <3>3
    <2> QED
      BY <2>2, <2>3
         DEF Next, Write, Skip, Subscription, GetOrFetch, Simulation, Begin, Lock, LoadSlot,
             Inject, Simulated, simVars, vars
  <1> QED
    BY <1>1, Invariant, PTL DEF Spec, ClockBackWithStream

\* A settled copy stays settled, and only the stream changes it.
StaysOrTold(k) == Settled(k)' /\ (cache'[k] = cache[k] \/ update = [key |-> k, slot |-> cache'[k]])

\* A step that caches the same and begins no fetch.
LEMMA SettledStill ==
    ASSUME NEW k \in Key, Settled(k), UNCHANGED cache,
           \A b \in Asker : pc'[b] \in {"ask", "insert"} => Head(todo'[b]) # k
    PROVE  StaysOrTold(k)
  BY DEF Settled, Cached, StaysOrTold

THEOREM SettledForGood == Spec => SettledStays
  <1>1. ASSUME IInv, [Next]_vars, NEW k \in Key, Settled(k)
        PROVE  StaysOrTold(k)
    <2>1. k \in Cached
      BY <1>1 DEF Settled
    <2>2. /\ pc \in [Asker -> Steps] /\ todo \in [Asker -> Seq(Key)] /\ Caller \subseteq Asker
          /\ Prefetcher \in Asker
      BY <1>1 DEF IInv, AskOK, Asker
    <2>3. \A a \in Asker : pc[a] \in {"ask", "insert"} => Head(todo[a]) # k
      BY <1>1 DEF Settled
    <2>5. CASE UNCHANGED vars
      BY <1>1, <2>3, <2>5, SettledStill DEF vars, askVars
    <2>6. CASE Skip \/ \E j \in Changing : Write(j)
      BY <1>1, <2>3, <2>6, SettledStill DEF Skip, Write, askVars
    <2>7. CASE Subscription
      <3>1. UNCHANGED <<pc, todo>>
        BY <2>7 DEF Subscription, askVars
      <3>2. CASE Connects \/ StreamEnds \/ Reconnect \/ StoreSlot
        BY <1>1, <2>3, <3>1, <3>2, SettledStill DEF Connects, StreamEnds, Reconnect, StoreSlot
      <3>3. CASE InsertUpdate
        <4>1. PICK j, v : j = update.key /\ v = update.slot
          OBVIOUS
        <4>2. cache' = With(cache, j, v) /\ update = [key |-> j, slot |-> v]
          BY <1>1, <3>3, <4>1 DEF IInv, StreamOK, InsertUpdate
        <4>3. /\ Cached' = Cached \cup {j} /\ cache'[j] = v
              /\ \A x \in Cached : x # j => cache'[x] = cache[x]
          BY <4>2, OneCopyChanged
        <4>4. Settled(k)'
          BY <2>1, <2>3, <3>1, <4>3 DEF Settled
        <4> QED
          BY <2>1, <4>2, <4>3, <4>4 DEF StaysOrTold
      <3> QED
        BY <2>7, <3>2, <3>3 DEF Subscription
    <2>8. ASSUME NEW a \in Asker, GetOrFetch(a) PROVE StaysOrTold(k)
      <3>3. CASE Look(a)
        <4>2. \A b \in Asker : pc'[b] \in {"ask", "insert"} => Head(todo'[b]) # k
          BY <2>1, <2>2, <2>3, <3>3 DEF Look, Goto
        <4> QED
          BY <1>1, <3>3, <4>2, SettledStill DEF Look
      <3>4. CASE Answered(a) \/ AskFails(a)
        <4>2. \A b \in Asker : pc'[b] \in {"ask", "insert"} => Head(todo'[b]) # k
          BY <2>2, <2>3, <3>4 DEF Answered, AskFails, Goto
        <4> QED
          BY <1>1, <3>4, <4>2, SettledStill DEF Answered, AskFails
      <3>5. CASE InsertFetched(a)
        <4> DEFINE h == Head(todo[a])
        <4>1. cache' = With(cache, h, answer[a]) /\ h # k
          BY <2>3, <3>5 DEF InsertFetched
        <4>2. Cached' = Cached \cup {h} /\ \A x \in Cached : x # h => cache'[x] = cache[x]
          BY <4>1, OneCopyChanged
        <4>3. \A b \in Asker : pc'[b] \in {"ask", "insert"} => Head(todo'[b]) # k
          BY <2>2, <2>3, <3>5 DEF InsertFetched, Goto
        <4> HIDE DEF h
        <4>4. k \in Cached' /\ cache'[k] = cache[k]
          BY <2>1, <4>1, <4>2
        <4> QED
          BY <4>3, <4>4 DEF Settled, StaysOrTold
      <3> QED
        BY <2>8, <3>3, <3>4, <3>5 DEF GetOrFetch
    <2>9. CASE Simulation
      <3>1. UNCHANGED cache
        BY <2>9 DEF Simulation
      <3>3. \A b \in Asker : pc'[b] \in {"ask", "insert"} =>
               pc[b] \in {"ask", "insert"} /\ todo'[b] = todo[b]
        BY <2>2, <2>9
           DEF Simulation, MakeSimulator, Begin, Lock, LoadSlot, Warp, Inject, Simulated, Goto
      <3>4. \A b \in Asker : pc'[b] \in {"ask", "insert"} => Head(todo'[b]) # k
        BY <2>3, <3>3
      <3> QED
        BY <1>1, <3>1, <3>4, SettledStill
    <2> QED
      BY <1>1, <2>5, <2>6, <2>7, <2>8, <2>9 DEF Next
  <1>2. IInv /\ [Next]_vars =>
            [\A k \in Key : Settled(k) =>
               Settled(k)' /\ (cache'[k] = cache[k] \/ update = [key |-> k, slot |-> cache'[k]])]_vars
    BY <1>1 DEF StaysOrTold
  <1> QED
    BY <1>2, Invariant, PTL DEF Spec, SettledStays

-----------------------------------------------------------------------------
\* What a simulation finds missing.

\* Where an account of the transaction is while the simulation goes on: in the
\* cache, among those that could not be fetched, or not yet come to.
AccountedFor(c) ==
    /\ pc[c] \in {"look", "ask", "insert"} =>
          KeysOf(tx[c]) \subseteq Cached \cup failed[c] \cup KeysOf(todo[c])
    /\ pc[c] \in {"load", "warp", "inject"} => KeysOf(tx[c]) \subseteq Cached \cup failed[c]
    /\ pc[c] = "inject" =>
          /\ KeysOf(todo[c]) \subseteq KeysOf(tx[c])
          /\ KeysOf(tx[c]) \subseteq injected[c] \cup failed[c] \cup KeysOf(todo[c])

AllAccountedFor ==
    /\ DOMAIN injected = Asker
    /\ \A c \in Caller : AccountedFor(c)

LEMMA KeysOfHeadAndTail ==
    ASSUME NEW S, NEW s \in Seq(S), s # <<>>
    PROVE  KeysOf(s) = {Head(s)} \cup KeysOf(Tail(s))
  <1>1. /\ Head(s) = s[1] /\ 1 \in 1..Len(s) /\ Len(s) \in Nat
        /\ Len(Tail(s)) = Len(s) - 1
        /\ \A i \in 1..Len(Tail(s)) : i + 1 \in 1..Len(s) /\ Tail(s)[i] = s[i + 1]
    OBVIOUS
  <1>2. \A i \in 1..Len(s) : i = 1 \/ (i - 1 \in 1..Len(Tail(s)) /\ s[i] = Tail(s)[i - 1])
    <2>1. TAKE i \in 1..Len(s)
    <2>2. CASE i # 1
      <3>1. i - 1 \in 1..Len(Tail(s)) /\ (i - 1) + 1 = i
        BY <1>1, <2>2
      <3> QED
        BY <1>1, <3>1
    <2> QED
      BY <2>2
  <1>3. KeysOf(s) \subseteq {Head(s)} \cup KeysOf(Tail(s))
    <2>1. PICK t : t = Tail(s)
      OBVIOUS
    <2>2. SUFFICES ASSUME NEW k \in KeysOf(s), k # Head(s)
                   PROVE  k \in KeysOf(t)
      BY <2>1
    <2>3. PICK i \in 1..Len(s) : k = s[i]
      BY <2>2 DEF KeysOf
    <2>4. PICK j : j = i - 1
      OBVIOUS
    <2>5. j \in 1..Len(t) /\ k = t[j]
      BY <1>1, <1>2, <2>1, <2>2, <2>3, <2>4
    <2> QED
      BY <2>5 DEF KeysOf
  <1>4. {Head(s)} \cup KeysOf(Tail(s)) \subseteq KeysOf(s)
    BY KeysOfTail
  <1> QED
    BY <1>3, <1>4

LEMMA KeysOfEmpty == KeysOf(<<>>) = {}
  BY DEF KeysOf

\* What the others do can only cache more.
LEMMA AccountedKept ==
    ASSUME NEW c \in Caller, AccountedFor(c), Cached \subseteq Cached', pc'[c] = pc[c],
           tx'[c] = tx[c], todo'[c] = todo[c], failed'[c] = failed[c], injected'[c] = injected[c]
    PROVE  AccountedFor(c)'
  <1>1. KeysOf(tx[c])' = KeysOf(tx[c]) /\ KeysOf(todo[c])' = KeysOf(todo[c])
    BY DEF KeysOf
  <1> QED
    BY <1>1 DEF AccountedFor

\* An asker's step, of which get_or_fetch is made: it takes the account it
\* comes to when that is cached, or has been asked for in vain.
LEMMA AccountedFetch ==
    ASSUME NEW a \in Asker, IInv, AllAccountedFor, GetOrFetch(a)
    PROVE  AllAccountedFor'
  <1>0. /\ pc \in [Asker -> Steps] /\ todo \in [Asker -> Seq(Key)] /\ tx \in [Asker -> Seq(Key)]
        /\ failed \in [Asker -> SUBSET Key] /\ Caller \subseteq Asker
        /\ \A b \in Asker : pc[b] \in {"ask", "insert"} => todo[b] # <<>>
    BY DEF IInv, AskOK, Asker
  <1>1. UNCHANGED <<tx, injected>>
    BY DEF GetOrFetch, simVars
  <1>2. Cached \subseteq Cached'
    <2>1. UNCHANGED cache \/ cache' = With(cache, Head(todo[a]), answer[a])
      BY DEF GetOrFetch, Look, Answered, AskFails, InsertFetched
    <2> QED
      BY <2>1 DEF With, Cached
  <1>3. \A b \in Asker \ {a} : pc'[b] = pc[b] /\ todo'[b] = todo[b] /\ failed'[b] = failed[b]
    BY <1>0 DEF GetOrFetch, Look, Answered, AskFails, InsertFetched, Goto
  <1>4. ASSUME a \in Caller
        PROVE  AccountedFor(a)'
    <2>1. pc[a] \in {"look", "ask", "insert"} /\ pc'[a] \in {"look", "ask", "insert"}
      BY <1>0 DEF GetOrFetch, Look, Answered, AskFails, InsertFetched, Goto
    <2>2. KeysOf(tx[a]) \subseteq Cached \cup failed[a] \cup KeysOf(todo[a])
      BY <1>4, <2>1 DEF AllAccountedFor, AccountedFor
    <2>3. todo[a] # <<>> => KeysOf(todo[a]) = {Head(todo[a])} \cup KeysOf(Tail(todo[a]))
      <3>1. todo[a] \in Seq(Key)
        BY <1>0
      <3> QED
        BY <3>1, KeysOfHeadAndTail
    <2>4. PICK h : h = Head(todo[a])
      OBVIOUS
    <2>5. \/ todo'[a] = todo[a] /\ failed'[a] = failed[a]
          \/ /\ todo[a] # <<>> /\ todo'[a] = Tail(todo[a]) /\ failed[a] \subseteq failed'[a]
             /\ h \in Cached' \cup failed'[a]
      <3>1. CASE Look(a)
        BY <1>0, <1>2, <2>4, <3>1 DEF Look
      <3>2. CASE Answered(a)
        BY <3>2 DEF Answered
      <3>3. CASE AskFails(a)
        BY <1>0, <2>4, <3>3 DEF AskFails
      <3>4. CASE InsertFetched(a)
        <4>1. cache' = With(cache, h, answer[a])
          BY <2>4, <3>4 DEF InsertFetched
        <4>2. h \in Cached'
          BY <4>1 DEF With, Cached
        <4> QED
          BY <1>0, <3>4, <4>2 DEF InsertFetched
      <3> QED
        BY <3>1, <3>2, <3>3, <3>4 DEF GetOrFetch
    <2>6. KeysOf(tx[a]) \subseteq Cached' \cup failed'[a] \cup KeysOf(todo'[a])
      BY <1>2, <2>2, <2>3, <2>4, <2>5
    <2>7. KeysOf(tx'[a]) \subseteq Cached' \cup failed'[a] \cup KeysOf(todo'[a])
      BY <1>1, <2>6
    <2>8. KeysOf(tx[a])' = KeysOf(tx'[a]) /\ KeysOf(todo[a])' = KeysOf(todo'[a])
      BY DEF KeysOf
    <2> QED
      BY <2>1, <2>7, <2>8 DEF AccountedFor
  <1>5. ASSUME NEW c \in Caller, c # a
        PROVE  AccountedFor(c)'
    BY <1>0, <1>1, <1>2, <1>3, <1>5, AccountedKept DEF AllAccountedFor
  <1> QED
    BY <1>1, <1>4, <1>5 DEF AllAccountedFor

LEMMA AccountedSimulation ==
    ASSUME IInv, AllAccountedFor, Simulation
    PROVE  AllAccountedFor'
  <1>0. /\ pc \in [Asker -> Steps] /\ todo \in [Asker -> Seq(Key)] /\ tx \in [Asker -> Seq(Key)]
        /\ failed \in [Asker -> SUBSET Key] /\ Caller \subseteq Asker /\ Prefetcher \notin Caller
        /\ DOMAIN injected = Asker
    BY CacheAssumption DEF CacheAssumption, IInv, AskOK, Asker, AllAccountedFor
  <1>1. UNCHANGED cache /\ Cached' = Cached
    BY DEF Simulation, Cached
  <1>2. CASE MakeSimulator
    <2>1. UNCHANGED <<tx, todo, injected>> /\ \A c \in Caller : pc'[c] = pc[c] /\ failed'[c] = failed[c]
      BY <1>0, <1>2 DEF MakeSimulator, Goto
    <2>2. \A c \in Caller : AccountedFor(c)'
      BY <1>1, <2>1, AccountedKept DEF AllAccountedFor
    <2> QED
      BY <1>0, <2>1, <2>2 DEF AllAccountedFor
  <1>3. ASSUME NEW c \in Caller,
               Begin(c) \/ Lock(c) \/ LoadSlot(c) \/ Warp(c) \/ Inject(c) \/ Simulated(c)
        PROVE  AllAccountedFor'
    <2>0. c \in Asker
      BY <1>0
    <2>1. /\ \A b \in Caller \ {c} : /\ pc'[b] = pc[b] /\ tx'[b] = tx[b] /\ todo'[b] = todo[b]
                                     /\ failed'[b] = failed[b] /\ injected'[b] = injected[b]
          /\ DOMAIN injected' = Asker
      BY <1>0, <1>3 DEF Begin, Lock, LoadSlot, Warp, Inject, Simulated, Goto, simVars
    <2>2. \A b \in Caller \ {c} : AccountedFor(b)'
      BY <1>1, <2>1, AccountedKept DEF AllAccountedFor
    <2>3. KeysOf(tx[c])' = KeysOf(tx'[c]) /\ KeysOf(todo[c])' = KeysOf(todo'[c])
      BY DEF KeysOf
    <2>4. AccountedFor(c)
      BY DEF AllAccountedFor
    <2>5. AccountedFor(c)'
      <3>1. CASE Begin(c)
        <4>1. pc'[c] = "look" /\ tx'[c] = todo'[c]
          BY <1>0, <2>0, <3>1 DEF Begin, Goto
        <4> QED
          BY <2>3, <4>1 DEF AccountedFor
      <3>2. CASE Lock(c)
        <4>1. /\ pc[c] = "look" /\ todo[c] = <<>> /\ pc'[c] = "load"
              /\ tx'[c] = tx[c] /\ failed'[c] = failed[c]
          BY <1>0, <2>0, <3>2 DEF Lock, Goto
        <4>2. KeysOf(tx[c]) \subseteq Cached \cup failed[c]
          BY <2>4, <4>1, KeysOfEmpty DEF AccountedFor
        <4> QED
          BY <1>1, <2>3, <4>1, <4>2 DEF AccountedFor
      <3>3. CASE LoadSlot(c)
        <4>1. pc[c] = "load" /\ pc'[c] = "warp" /\ tx'[c] = tx[c] /\ failed'[c] = failed[c]
          BY <1>0, <2>0, <3>3 DEF LoadSlot, Goto
        <4> QED
          BY <1>1, <2>3, <2>4, <4>1 DEF AccountedFor
      <3>4. CASE Warp(c)
        <4>1. /\ pc[c] = "warp" /\ pc'[c] = "inject" /\ tx'[c] = tx[c] /\ failed'[c] = failed[c]
              /\ todo'[c] = tx[c]
          BY <1>0, <2>0, <3>4 DEF Warp, Goto
        <4> QED
          BY <1>1, <2>3, <2>4, <4>1 DEF AccountedFor
      <3>5. CASE Inject(c)
        <4>1. PICK h : h = Head(todo[c])
          OBVIOUS
        <4>2. /\ pc[c] = "inject" /\ pc'[c] = "inject" /\ todo[c] # <<>>
              /\ tx'[c] = tx[c] /\ failed'[c] = failed[c] /\ todo'[c] = Tail(todo[c])
              /\ injected'[c] = injected[c] \cup ({h} \cap Cached)
          BY <1>0, <2>0, <3>5, <4>1 DEF Inject
        <4>3. KeysOf(todo[c]) = {h} \cup KeysOf(Tail(todo[c]))
          <5>1. todo[c] \in Seq(Key)
            BY <1>0, <2>0
          <5> QED
            BY <4>1, <4>2, <5>1, KeysOfHeadAndTail
        <4>4. /\ KeysOf(tx[c]) \subseteq Cached \cup failed[c]
              /\ KeysOf(todo[c]) \subseteq KeysOf(tx[c])
              /\ KeysOf(tx[c]) \subseteq injected[c] \cup failed[c] \cup KeysOf(todo[c])
          BY <2>4, <4>2 DEF AccountedFor
        <4>5. KeysOf(tx[c]) \subseteq injected'[c] \cup failed[c] \cup KeysOf(Tail(todo[c]))
          BY <4>2, <4>3, <4>4
        <4> QED
          BY <1>1, <2>3, <4>2, <4>3, <4>4, <4>5 DEF AccountedFor
      <3>6. CASE Simulated(c)
        <4>1. pc'[c] = "idle"
          BY <1>0, <2>0, <3>6 DEF Simulated, Goto
        <4> QED
          BY <4>1 DEF AccountedFor
      <3> QED
        BY <1>3, <3>1, <3>2, <3>3, <3>4, <3>5, <3>6
    <2> QED
      BY <2>1, <2>2, <2>5 DEF AllAccountedFor
  <1> QED
    BY <1>2, <1>3 DEF Simulation

LEMMA AccountedNext ==
    ASSUME IInv, AllAccountedFor, [Next]_vars
    PROVE  AllAccountedFor'
  <1>1. ASSUME Cached \subseteq Cached', UNCHANGED <<pc, tx, todo, failed, injected>>
        PROVE  AllAccountedFor'
    BY <1>1, AccountedKept DEF AllAccountedFor
  <1>2. CASE UNCHANGED vars
    BY <1>1, <1>2 DEF vars, askVars, simVars, Cached
  <1>3. CASE Skip \/ \E k \in Changing : Write(k)
    BY <1>1, <1>3 DEF Skip, Write, askVars, simVars, Cached
  <1>4. CASE Subscription
    <2>1. UNCHANGED cache \/ cache' = With(cache, update.key, update.slot)
      BY <1>4 DEF Subscription, Connects, StreamEnds, Reconnect, StoreSlot, InsertUpdate
    <2>2. Cached \subseteq Cached'
      BY <2>1 DEF With, Cached
    <2> QED
      BY <1>1, <1>4, <2>2 DEF Subscription, askVars, simVars
  <1> QED
    BY <1>2, <1>3, <1>4, AccountedFetch, AccountedSimulation DEF Next

LEMMA AccountedInit ==
    ASSUME Init
    PROVE  AllAccountedFor
  <1>1. \A c \in Caller : c \in Asker /\ pc[c] = "idle"
    BY CacheAssumption DEF CacheAssumption, Init, Asker
  <1> QED
    BY <1>1 DEF AllAccountedFor, AccountedFor, Init

\* simulate: when it runs the transaction, an account that is not in the
\* LiteSVM is one that this simulation asked for in vain, however the stream,
\* the warm-up and the other simulations interleave with its fetches.
THEOREM MissingFailed == Spec => []MissingOnlyIfFailed
  <1>1. AllAccountedFor => MissingOnlyIfFailed
    BY KeysOfEmpty DEF AllAccountedFor, AccountedFor, MissingOnlyIfFailed
  <1> QED
    BY <1>1, AccountedInit, AccountedNext, Invariant, PTL DEF Spec

-----------------------------------------------------------------------------
\* How far the copy of a streamed account may be behind.

Storing(k) == stream = "storing" /\ update.key = k /\ IsNewest(update.slot, written[k])

\* Its newest write has still to be told, or is being stored.
Coming(k) == (Connected /\ k \in Ahead(told)) \/ Storing(k)

\* An account that is cached is the newest of the chain or has its newest write
\* coming; and one that is not cached was never written or has; but for what is
\* lost, hidden or from a fork.
Told ==
    /\ stream = "storing" /\ update.slot \in written[update.key] => update.slot = told
    /\ \A k \in (Streamed \cap Cached) \ (lost \cup hidden) :
         cache[k] \in written[k] => IsNewest(cache[k], written[k]) \/ Coming(k)
    /\ \A k \in Streamed \ (Cached \cup lost) : written[k] = {1} \/ Coming(k)

LEMMA NewestUnique ==
    ASSUME NEW slots, NEW s, slots \subseteq Nat, IsNewest(s, slots)
    PROVE  s = Newest(slots)
  <1>1. PICK t : t = CHOOSE x \in slots : \A y \in slots : y <= x
    OBVIOUS
  <1>2. t \in slots /\ \A y \in slots : y <= t
    BY <1>1 DEF IsNewest
  <1>3. s \in Nat /\ t \in Nat /\ s <= t /\ t <= s
    BY <1>2 DEF IsNewest
  <1> QED
    BY <1>1, <1>3 DEF Newest

LEMMA ToldInit ==
    ASSUME Init
    PROVE  Told
  <1>1. Cached = {} /\ stream = "connecting" /\ \A k \in Key : written[k] = {1}
    BY DEF Init, Cached
  <1>2. Streamed \subseteq Key
    BY CacheAssumption DEF CacheAssumption
  <1> QED
    BY <1>1, <1>2 DEF Told

LEMMA ToldChain ==
    ASSUME IInv, Told, Skip \/ \E k \in Changing : Write(k)
    PROVE  Told'
  <1>0. Streamed \subseteq Key /\ Changing \subseteq Key
    BY CacheAssumption DEF CacheAssumption
  <1>1. /\ slot \in Nat /\ slot' = slot + 1 /\ written \in [Key -> SUBSET (1..slot)]
        /\ UNCHANGED <<stream, told, update, cache, hidden>> /\ Cached' = Cached /\ Connected' = Connected
        /\ told \in 1..slot
    BY DEF IInv, ChainOK, StreamOK, Write, Skip, streamVars, Cached, Connected
  <1>2. CASE Skip
    <2>1. UNCHANGED <<written, lost>>
      BY <1>2 DEF Skip
    <2> QED
      BY <1>1, <2>1 DEF Told, Coming, Storing, Ahead, Connected
  <1>3. ASSUME NEW k \in Changing, Write(k)
        PROVE  Told'
    <2>1. /\ k \in Key /\ written' = [written EXCEPT ![k] = @ \cup {slot'}]
          /\ lost' = IF k \in Streamed /\ ~Connected THEN lost \cup {k} ELSE lost
      BY <1>0, <1>3 DEF Write
    <2>2. /\ written'[k] = written[k] \cup {slot'}
          /\ \A j \in Key \ {k} : written'[j] = written[j]
      BY <1>1, <2>1
    <2>3. \A j \in Streamed \ {k} : Coming(j)' <=> Coming(j)
      BY <1>0, <1>1, <2>2 DEF Coming, Storing, Ahead
    <2>4. k \in Streamed /\ k \notin lost' => Coming(k)'
      BY <1>1, <2>1, <2>2 DEF Coming, Ahead
    <2>5. \A j \in Cached : cache[j] \in written'[j] => cache[j] \in written[j]
      <3> SUFFICES ASSUME NEW j \in Cached, cache[j] \in written'[j]
                   PROVE  cache[j] \in written[j]
        OBVIOUS
      <3>1. j \in Key /\ cache[j] \in written[j] \cup Skipped
        BY DEF IInv, CopiesOK
      <3>2. cache[j] \in 1..slot
        BY <1>1, <3>1, SkippedFacts
      <3> QED
        BY <1>1, <2>2, <3>1, <3>2
    <2>6. stream = "storing" /\ update.slot \in written'[update.key] => update.slot = told
      <3> SUFFICES ASSUME stream = "storing", update.slot \in written'[update.key]
                   PROVE  update.slot \in written[update.key]
        BY DEF Told
      <3>1. update.key \in Key /\ update.slot \in 1..slot
        BY <1>0 DEF IInv, StreamOK
      <3> QED
        BY <1>1, <2>2, <3>1
    <2>7. \A j \in (Streamed \cap Cached) \ (lost' \cup hidden) :
             cache[j] \in written'[j] => IsNewest(cache[j], written'[j]) \/ Coming(j)'
      <3> SUFFICES ASSUME NEW j \in (Streamed \cap Cached) \ (lost' \cup hidden), cache[j] \in written'[j]
                   PROVE  IsNewest(cache[j], written'[j]) \/ Coming(j)'
        OBVIOUS
      <3>1. CASE j = k
        BY <2>4, <3>1
      <3>2. CASE j # k
        <4>1. j \notin lost /\ cache[j] \in written[j] /\ written'[j] = written[j]
          BY <1>0, <2>1, <2>2, <2>5, <3>2
        <4> QED
          BY <2>3, <3>2, <4>1 DEF Told
      <3> QED
        BY <3>1, <3>2
    <2>8. \A j \in Streamed \ (Cached \cup lost') : written'[j] = {1} \/ Coming(j)'
      BY <1>0, <2>1, <2>2, <2>3, <2>4 DEF Told
    <2> QED
      BY <1>1, <2>6, <2>7, <2>8 DEF Told
  <1> QED
    BY <1>2, <1>3

LEMMA ToldSubscription ==
    ASSUME IInv, Told, Subscription
    PROVE  Told'
  <1>0. UNCHANGED written /\ Streamed \subseteq Key
    BY CacheAssumption DEF CacheAssumption, Subscription, chainVars
  <1>1. CASE Connects \/ Reconnect
    <2>1. /\ UNCHANGED <<cache, lost, hidden, update>> /\ Cached' = Cached
          /\ stream \notin {"open", "storing"} /\ stream' # "storing"
      BY <1>1 DEF Connects, Reconnect, Cached
    <2>2. \A k \in Streamed : ~Coming(k)
      BY <2>1 DEF Coming, Connected, Storing
    <2> QED
      BY <1>0, <2>1, <2>2 DEF Told
  <1>2. CASE StreamEnds
    <2>1. /\ UNCHANGED <<cache, hidden, update>> /\ Cached' = Cached
          /\ stream # "storing" /\ stream' = "sleeping"
          /\ lost' = IF Connected THEN lost \cup Ahead(told) ELSE lost
      BY <1>2 DEF StreamEnds, Cached
    <2>2. \A k \in Streamed \ lost' : ~Coming(k)
      BY <2>1 DEF Coming, Storing
    <2>3. lost \subseteq lost'
      BY <2>1
    <2> QED
      BY <1>0, <2>1, <2>2, <2>3 DEF Told
  <1>3. CASE StoreSlot
    <2>0. /\ stream = "open" /\ stream' = "storing" /\ UNCHANGED <<cache, lost, hidden>>
          /\ Cached' = Cached /\ Connected /\ Connected'
      BY <1>3 DEF StoreSlot, Cached, Connected
    <2>1. PICK u \in [key : Streamed, slot : 2..slot] : TellsNext(u) /\ update' = u
      BY <1>3 DEF StoreSlot
    <2>2. /\ u.key \in Streamed /\ u.slot \in Nat /\ 1 < u.slot /\ told \in Nat /\ slot \in Nat
          /\ \A k \in Streamed : written[k] \subseteq Nat
      BY <1>0 DEF IInv, ChainOK, StreamOK
    <2>3. CASE u.slot \in Skipped /\ UNCHANGED told
      <3>1. \A k \in Streamed : Coming(k) => Coming(k)'
        BY <1>0, <2>0, <2>3 DEF Coming, Storing, Ahead
      <3>2. u.slot \notin written[u.key]
        BY <1>0, <2>2, <2>3, SkippedFacts
      <3> QED
        BY <1>0, <2>0, <2>1, <3>1, <3>2 DEF Told
    <2>4. CASE /\ u.slot \in written[u.key] /\ told < u.slot /\ told' = u.slot
               /\ \A k \in Streamed : \A s \in written[k] : told < s => u.slot <= s
      <3>1. ASSUME NEW k \in Streamed, Coming(k)
            PROVE  Coming(k)'
        <4>1. PICK s \in written[k] : told < s
          BY <2>0, <3>1 DEF Coming, Storing, Ahead
        <4>2. u.slot <= s /\ s \in Nat
          BY <2>2, <2>4, <4>1
        <4>3. CASE u.slot < s
          BY <1>0, <2>0, <2>4, <4>3 DEF Coming, Ahead
        <4>4. CASE u.slot = s
          <5>1. k = u.key
            BY <1>0, <2>2, <2>4, <4>4 DEF IInv, ChainOK
          <5>2. CASE \A t \in written[k] : t <= u.slot
            <6>1. IsNewest(u.slot, written[k])
              BY <2>4, <5>1, <5>2 DEF IsNewest
            <6> QED
              BY <1>0, <2>0, <2>1, <5>1, <6>1 DEF Coming, Storing
          <5>3. CASE \E t \in written[k] : ~(t <= u.slot)
            <6>1. PICK t \in written[k] : ~(t <= u.slot)
              BY <5>3
            <6>2. u.slot < t
              BY <2>2, <6>1
            <6> QED
              BY <1>0, <2>0, <2>4, <6>2 DEF Coming, Ahead
          <5> QED
            BY <5>2, <5>3
        <4> QED
          BY <2>2, <4>2, <4>3, <4>4
      <3> QED
        BY <1>0, <2>0, <2>1, <2>4, <3>1 DEF Told
    <2> QED
      BY <2>1, <2>3, <2>4 DEF TellsNext
  <1>4. CASE InsertUpdate
    <2>1. PICK k, v : k = update.key /\ v = update.slot
      OBVIOUS
    <2>2. /\ stream = "storing" /\ stream' = "open" /\ UNCHANGED told
          /\ cache' = With(cache, k, v) /\ lost' = lost \ {k} /\ hidden' = hidden \ {k}
          /\ Connected /\ Connected'
      BY <1>4, <2>1 DEF InsertUpdate, Connected
    <2>3. /\ k \in Key /\ k \in Streamed /\ v \in written[k] \cup Skipped
          /\ v \in written[k] => v = told
          /\ written[k] \subseteq Nat
      BY <1>0, <2>1, <2>2 DEF IInv, StreamOK, ChainOK, Told
    <2>4. /\ Cached' = Cached \cup {k} /\ cache'[k] = v
          /\ \A x \in Cached : x # k => cache'[x] = cache[x]
      BY <2>2, OneCopyChanged
    <2>5. \A j \in Streamed \ {k} : Coming(j) => Coming(j)'
      BY <1>0, <2>1, <2>2 DEF Coming, Storing, Ahead
    <2>6. cache'[k] \in written[k] => IsNewest(cache'[k], written[k]) \/ Coming(k)'
      <3> SUFFICES ASSUME v \in written[k], ~IsNewest(v, written[k])
                   PROVE  Coming(k)'
        BY <2>4
      <3>1. PICK t \in written[k] : ~(t <= v)
        BY DEF IsNewest
      <3>2. told < t
        BY <2>3, <3>1
      <3> QED
        BY <1>0, <2>2, <2>3, <3>2 DEF Coming, Ahead
    <2>7. \A j \in (Streamed \cap Cached') \ (lost' \cup hidden') :
             cache'[j] \in written[j] => IsNewest(cache'[j], written[j]) \/ Coming(j)'
      <3> SUFFICES ASSUME NEW j \in (Streamed \cap Cached') \ (lost' \cup hidden'), j # k,
                          cache'[j] \in written[j]
                   PROVE  IsNewest(cache'[j], written[j]) \/ Coming(j)'
        BY <2>6
      <3>1. j \in (Streamed \cap Cached) \ (lost \cup hidden) /\ cache'[j] = cache[j]
        BY <2>2, <2>4
      <3> QED
        BY <2>5, <3>1 DEF Told
    <2>8. \A j \in Streamed \ (Cached' \cup lost') : written[j] = {1} \/ Coming(j)'
      BY <2>2, <2>4, <2>5 DEF Told
    <2> QED
      BY <1>0, <2>2, <2>7, <2>8 DEF Told
  <1> QED
    BY <1>1, <1>2, <1>3, <1>4 DEF Subscription

LEMMA ToldFetch ==
    ASSUME NEW a \in Asker, IInv, Told, GetOrFetch(a)
    PROVE  Told'
  <1>0. UNCHANGED <<written, stream, told, update, lost>>
    BY DEF GetOrFetch, chainVars, streamVars
  <1>1. \A j \in Streamed : Coming(j)' <=> Coming(j)
    BY <1>0 DEF Coming, Storing, Ahead, Connected
  <1>2. CASE Look(a) \/ Answered(a) \/ AskFails(a)
    <2>1. UNCHANGED <<cache, hidden>> /\ Cached' = Cached
      BY <1>2 DEF Look, Answered, AskFails, Cached
    <2> QED
      BY <1>0, <1>1, <2>1 DEF Told
  <1>3. CASE InsertFetched(a)
    <2>1. PICK k : k = Head(todo[a])
      OBVIOUS
    <2>2. /\ pc[a] = "insert" /\ cache' = With(cache, k, answer[a])
          /\ hidden' = IF k \in Streamed \cap Cached THEN hidden \cup {k} ELSE hidden
      BY <1>3, <2>1 DEF InsertFetched
    <2>3. answer[a] \in written[k]
      BY <2>1, <2>2 DEF IInv, AskOK
    <2>4. /\ Cached' = Cached \cup {k} /\ cache'[k] = answer[a]
          /\ \A x \in Cached : x # k => cache'[x] = cache[x]
      BY <2>2, OneCopyChanged
    <2>5. written[k] = {1} => IsNewest(answer[a], written[k])
      BY <2>3 DEF IsNewest
    <2>6. \A j \in (Streamed \cap Cached') \ (lost \cup hidden') :
             cache'[j] \in written[j] => IsNewest(cache'[j], written[j]) \/ Coming(j)'
      <3>1. TAKE j \in (Streamed \cap Cached') \ (lost \cup hidden')
      <3>2. CASE j # k
        BY <1>1, <2>2, <2>4, <3>1, <3>2 DEF Told
      <3>3. CASE j = k
        <4>1. k \notin Cached
          BY <2>2, <3>1, <3>3
        <4>2. written[k] = {1} \/ Coming(k)
          BY <3>1, <3>3, <4>1 DEF Told
        <4> QED
          BY <1>1, <2>4, <2>5, <3>1, <3>3, <4>2
      <3> QED
        BY <3>2, <3>3
    <2>7. \A j \in Streamed \ (Cached' \cup lost) : written[j] = {1} \/ Coming(j)'
      BY <1>1, <2>4 DEF Told
    <2> QED
      BY <1>0, <2>6, <2>7 DEF Told
  <1> QED
    BY <1>2, <1>3 DEF GetOrFetch

LEMMA ToldNext ==
    ASSUME IInv, Told, [Next]_vars
    PROVE  Told'
  <1>1. ASSUME UNCHANGED <<written, stream, told, update, cache, lost, hidden>>
        PROVE  Told'
    BY <1>1 DEF Told, Coming, Storing, Ahead, Connected, Cached
  <1>2. CASE UNCHANGED vars
    BY <1>1, <1>2 DEF vars, chainVars, streamVars
  <1>3. CASE Simulation
    BY <1>1, <1>3 DEF Simulation, chainVars, streamVars
  <1> QED
    BY <1>2, <1>3, ToldChain, ToldSubscription, ToldFetch DEF Next

\* A streamed account that is cached is the newest of the chain, or its newest
\* write is still to be told or being stored, but for what run_stream missed
\* between two connections, what the unconditional insert of get_or_fetch
\* overwrote and what came from a fork: there is no fourth way for the cache to
\* fall behind, however far a node lags.
THEOREM LiveOrKnownWhy == Spec => []LiveUnlessLostOrHidden
  <1>1. ASSUME IInv, Told
        PROVE  LiveUnlessLostOrHidden
    <2> SUFFICES ASSUME NEW k \in (Streamed \cap Cached) \ (lost \cup hidden), cache[k] \in written[k]
                 PROVE  LET newest == Newest(written[k]) IN
                          \/ cache[k] = newest
                          \/ Connected /\ told < newest
                          \/ update = [key |-> k, slot |-> newest]
      BY DEF LiveUnlessLostOrHidden
    <2>1. k \in Key /\ written[k] \subseteq 1..slot /\ written[k] \subseteq Nat
      BY <1>1, CacheAssumption DEF CacheAssumption, IInv, ChainOK
    <2>2. PICK newest : newest = Newest(written[k])
      OBVIOUS
    <2>3. CASE IsNewest(cache[k], written[k])
      BY <2>1, <2>3, NewestUnique
    <2>4. CASE Storing(k)
      <3>1. update.slot = newest /\ update.key = k
        BY <2>1, <2>2, <2>4, NewestUnique DEF Storing
      <3>2. update \in [key : Streamed, slot : 1..slot]
        BY <1>1, <2>4 DEF Storing, IInv, StreamOK
      <3> QED
        BY <2>2, <3>1, <3>2
    <2>5. CASE Connected /\ k \in Ahead(told)
      <3>1. PICK s \in written[k] : told < s
        BY <2>5 DEF Ahead
      <3>2. slot \in Nat /\ told \in Nat
        BY <1>1 DEF IInv, ChainOK, StreamOK
      <3>4. PICK m \in written[k] : IsNewest(m, written[k])
        BY <1>1, <2>1 DEF IInv, ChainOK
      <3>5. m = newest /\ s <= m /\ m \in Nat /\ s \in Nat
        BY <2>1, <2>2, <3>1, <3>4, NewestUnique DEF IsNewest
      <3> QED
        BY <2>2, <2>5, <3>1, <3>2, <3>5
    <2> QED
      BY <1>1, <2>3, <2>4, <2>5 DEF Told, Coming
  <1> QED
    BY <1>1, ToldInit, ToldNext, Invariant, PTL DEF Spec
=============================================================================

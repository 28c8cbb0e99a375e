-------------------------- MODULE DownloadCacheProofs --------------------------
(****************************************************************************)
(* The download caches for any number of goroutines, sources and contents:  *)
(* the entries match their validators, every download returns what its      *)
(* source held during the call, and one of a URL returns data.              *)
(****************************************************************************)
EXTENDS DownloadCache, TLAPS

\* What is copied from the cache or read from a server matches as well.
CallsMatch ==
    \A c \in Callers :
        /\ call[c].found.tag = call[c].found.body
        /\ call[c].pc \in {"changed", "store"} => call[c].tag = call[c].body

\* The inductive invariant.
Matching == TypeOK /\ EntriesMatch /\ CallsMatch

-----------------------------------------------------------------------------
(* Types *)

\* The initial entry, call and source have their types.
LEMMA NoCallType == NoEntry \in Entry /\ NoCall \in Call
<1>1. (CHOOSE s \in Sources : TRUE) \in Sources
  BY CacheAssumption
<1>2. NoEntry \in Entry
  BY DEF NoEntry, Entry
<1> QED
  BY <1>1, <1>2 DEF NoCall, Call

\* The fields of a call.
LEMMA CallFields ==
    ASSUME TypeOK, NEW c \in Callers
    PROVE  /\ call[c] \in Call
           /\ call[c].source \in Sources /\ call[c].found \in Entry
           /\ call[c].found.body \in Nat
           /\ call[c].tag \in Nat /\ call[c].body \in Nat
           /\ remote[call[c].source] \in Nat
           /\ cache[call[c].source] \in Entry
           /\ cache[call[c].source].body \in Nat
<1>1. call[c] \in Call
  BY DEF TypeOK
<1>2. call[c].source \in Sources /\ call[c].found \in Entry
  BY <1>1 DEF Call
<1>3. cache[call[c].source] \in Entry
  BY <1>2 DEF TypeOK
<1> QED
  BY <1>1, <1>2, <1>3 DEF Call, Entry, TypeOK

\* A call goes on as k, which matches too: types and matching are kept.
LEMMA BecomeMatches ==
    ASSUME Matching, NEW c \in Callers, NEW k \in Call, Become(c, k),
           k.found.tag = k.found.body,
           k.pc \in {"changed", "store"} => k.tag = k.body
    PROVE  call' \in [Callers -> Call] /\ CallsMatch'
<1>1. call \in [Callers -> Call]
  BY DEF Matching, TypeOK
<1>2. \A d \in Callers : call'[d] = IF d = c THEN k ELSE call[d]
  BY <1>1 DEF Become
<1>3. call' \in [Callers -> Call]
  BY <1>1 DEF Become
<1>4. CallsMatch'
  BY <1>2 DEF Matching, CallsMatch
<1> QED
  BY <1>3, <1>4

\* A call returns.
LEMMA ReturnMatches ==
    ASSUME Matching, NEW c \in Callers, NEW r \in Result, Return(c, r)
    PROVE  /\ call' \in [Callers -> Call] /\ CallsMatch'
           /\ result' \in [Callers -> Result]
<1>1. NoCall.found.tag = NoCall.found.body /\ NoCall.pc = "idle"
  BY DEF NoCall, NoEntry
<1>2. result' \in [Callers -> Result]
  BY DEF Return, Matching, TypeOK
<1> QED
  BY <1>1, <1>2, NoCallType, BecomeMatches DEF Return

\* An entry that matches goes into the cache.
LEMMA SetEntryMatches ==
    ASSUME Matching, NEW s \in Sources, NEW e \in Entry, e.tag = e.body,
           cache' = [cache EXCEPT ![s] = e]
    PROVE  cache' \in [Sources -> Entry] /\ EntriesMatch'
<1>1. cache \in [Sources -> Entry]
  BY DEF Matching, TypeOK
<1>2. \A t \in Sources : cache'[t] = IF t = s THEN e ELSE cache[t]
  BY <1>1
<1>3. cache' \in [Sources -> Entry]
  BY <1>1
<1>4. EntriesMatch'
  BY <1>2 DEF Matching, EntriesMatch
<1> QED
  BY <1>3, <1>4

\* What a server sent goes into the cache, or the entry is dropped.
LEMMA StoreEntryMatches ==
    ASSUME Matching, NEW s \in Sources, NEW b \in Nat, NEW kind \in {"http", "git"},
           StoreEntry(s, b, b, kind)
    PROVE  /\ cache' \in [Sources -> Entry] /\ EntriesMatch'
           /\ ticker' \in {"none", "http", "git"}
<1>1. ticker \in {"none", "http", "git"}
  BY DEF Matching, TypeOK
<1>2. CASE b \in Cacheable
  <2> DEFINE e == [tag |-> b, body |-> b, idle |-> FALSE]
  <2>1. e \in Entry /\ e.tag = e.body
    BY <1>2 DEF Entry
  <2>2. cache' = [cache EXCEPT ![s] = e] /\ StartTicker(kind)
    BY <1>2 DEF StoreEntry
  <2> HIDE DEF e
  <2> QED
    BY <1>1, <2>1, <2>2, SetEntryMatches DEF StartTicker
<1>3. CASE b \notin Cacheable
  <2>1. NoEntry.tag = NoEntry.body
    BY DEF NoEntry
  <2> QED
    BY <1>1, <1>3, <2>1, NoCallType, SetEntryMatches DEF StoreEntry
<1> QED
  BY <1>2, <1>3

\* A purge of some sources.
LEMMA PurgedMatches ==
    ASSUME Matching, NEW S, cache' = Purged(S)
    PROVE  cache' \in [Sources -> Entry] /\ EntriesMatch'
<1>1. cache \in [Sources -> Entry] /\ NoEntry \in Entry
  BY NoCallType DEF Matching, TypeOK
<1>2. NoEntry.tag = NoEntry.body
  BY DEF NoEntry
<1>3. \A s \in Sources : cache'[s] \in {NoEntry, cache[s]}
  BY DEF Purged
<1>4. cache' \in [Sources -> Entry]
  BY <1>1 DEF Purged
<1> QED
  BY <1>2, <1>3, <1>4 DEF Matching, EntriesMatch

-----------------------------------------------------------------------------
(* The steps *)

\* A call on a URL.
LEMMA HttpMatches ==
    ASSUME Matching, NEW c \in Callers, HttpStep(c)
    PROVE  Matching'
<1> USE DEF Matching
<1> DEFINE k == call[c]
           s == k.source
<1>1. /\ k \in Call /\ s \in Sources /\ k.tag \in Nat /\ k.body \in Nat
      /\ k.found \in Entry /\ k.found.body \in Nat /\ remote[s] \in Nat
      /\ k.found.tag = k.found.body
  BY CallFields DEF CallsMatch
<1>2. ASSUME NEW u \in Urls, Get(c, u)
      PROVE  Matching'
  <2> DEFINE n == [NoCall EXCEPT !.pc = "request", !.source = u, !.found = cache[u]]
  <2>1. u \in Sources /\ cache[u] \in Entry /\ cache[u].tag = cache[u].body
    BY DEF TypeOK, EntriesMatch, Sources
  <2>2. n \in Call /\ n.found = cache[u] /\ n.pc = "request"
    BY <2>1, NoCallType DEF Call
  <2>3. Become(c, n)
    BY <1>2 DEF Get
  <2> HIDE DEF n
  <2>4. call' \in [Callers -> Call] /\ CallsMatch'
    BY <2>1, <2>2, <2>3, BecomeMatches
  <2> QED
    BY <1>2, <2>4 DEF Get, TypeOK, EntriesMatch
<1>3. CASE ServeUnchanged(c)
  <2> DEFINE n == [k EXCEPT !.pc = "unchanged"]
  <2>1. n \in Call /\ n.found = k.found /\ n.pc = "unchanged"
    BY <1>1 DEF Call
  <2>2. Become(c, n)
    BY <1>3 DEF ServeUnchanged
  <2> HIDE DEF n
  <2>3. call' \in [Callers -> Call] /\ CallsMatch'
    BY <1>1, <2>1, <2>2, BecomeMatches
  <2> QED
    BY <1>3, <2>3 DEF ServeUnchanged, TypeOK, EntriesMatch
<1>4. CASE ServeChanged(c)
  <2> DEFINE n == [k EXCEPT !.pc = "changed", !.tag = remote[s], !.body = remote[s]]
  <2>1. n \in Call /\ n.found = k.found /\ n.tag = n.body
    BY <1>1 DEF Call
  <2>2. Become(c, n)
    BY <1>4 DEF ServeChanged
  <2> HIDE DEF n
  <2>3. call' \in [Callers -> Call] /\ CallsMatch'
    BY <1>1, <2>1, <2>2, BecomeMatches
  <2> QED
    BY <1>4, <2>3 DEF ServeChanged, TypeOK, EntriesMatch
<1>5. CASE GetFails(c)
  <2>1. [error |-> TRUE, body |-> 0] \in Result
    BY DEF Result
  <2> QED
    BY <1>5, <2>1, ReturnMatches DEF GetFails, ReturnError, TypeOK, EntriesMatch
<1>6. CASE UseCached(c)
  <2> DEFINE e == [k.found EXCEPT !.idle = FALSE]
  <2>1. e \in Entry /\ e.tag = e.body
    BY <1>1 DEF Entry
  <2>2. cache' = [cache EXCEPT ![s] = e]
    BY <1>6 DEF UseCached
  <2>3. [error |-> FALSE, body |-> k.found.body] \in Result
    BY <1>1 DEF Result
  <2> HIDE DEF e
  <2>4. cache' \in [Sources -> Entry] /\ EntriesMatch'
    BY <1>1, <2>1, <2>2, SetEntryMatches
  <2> QED
    BY <1>6, <2>3, <2>4, ReturnMatches DEF UseCached, ReturnData, TypeOK
<1>7. CASE UseResponse(c)
  <2>1. k.tag = k.body
    BY <1>7 DEF UseResponse, CallsMatch
  <2>2. StoreEntry(s, k.body, k.body, "http")
    BY <1>7, <2>1 DEF UseResponse
  <2>3. [error |-> FALSE, body |-> k.body] \in Result
    BY <1>1 DEF Result
  <2>4. /\ cache' \in [Sources -> Entry] /\ EntriesMatch'
        /\ ticker' \in {"none", "http", "git"}
    BY <1>1, <2>2, StoreEntryMatches
  <2> QED
    BY <1>7, <2>3, <2>4, ReturnMatches DEF UseResponse, ReturnData, TypeOK
<1> QED
  BY <1>2, <1>3, <1>4, <1>5, <1>6, <1>7 DEF HttpStep

\* A call on a release asset.
LEMMA GitMatches ==
    ASSUME Matching, NEW c \in Callers, GitStep(c)
    PROVE  Matching'
<1> USE DEF Matching
<1> DEFINE k == call[c]
           s == k.source
<1>1. /\ k \in Call /\ s \in Sources /\ k.tag \in Nat /\ k.body \in Nat
      /\ remote[s] \in Nat /\ cache[s].body \in Nat
      /\ k.found.tag = k.found.body
  BY CallFields DEF CallsMatch
<1>2. ASSUME NEW u \in Paths, GetAsset(c, u)
      PROVE  Matching'
  <2> DEFINE n == [NoCall EXCEPT !.pc = "request", !.source = u]
  <2>1. n \in Call /\ n.found = NoEntry /\ n.pc = "request"
    BY NoCallType DEF Call, NoCall, Sources
  <2>2. NoEntry.tag = NoEntry.body
    BY DEF NoEntry
  <2>3. Become(c, n)
    BY <1>2 DEF GetAsset
  <2> HIDE DEF n
  <2>4. call' \in [Callers -> Call] /\ CallsMatch'
    BY <2>1, <2>2, <2>3, BecomeMatches
  <2> QED
    BY <1>2, <2>4 DEF GetAsset, TypeOK, EntriesMatch
<1>3. CASE ReadRelease(c)
  <2> DEFINE n == [k EXCEPT !.pc = "asset", !.tag = remote[s]]
  <2>1. n \in Call /\ n.found = k.found /\ n.pc = "asset"
    BY <1>1 DEF Call
  <2>2. Become(c, n)
    BY <1>3 DEF ReadRelease
  <2> HIDE DEF n
  <2>3. call' \in [Callers -> Call] /\ CallsMatch'
    BY <1>1, <2>1, <2>2, BecomeMatches
  <2> QED
    BY <1>3, <2>3 DEF ReadRelease, TypeOK, EntriesMatch
<1>4. CASE NoSuchAsset(c) \/ GetAssetFails(c) \/ UseCachedAsset(c)
  <2>1. /\ [error |-> TRUE, body |-> 0] \in Result
        /\ [error |-> FALSE, body |-> 0] \in Result
        /\ [error |-> FALSE, body |-> cache[s].body] \in Result
    BY <1>1 DEF Result
  <2> QED
    BY <1>4, <2>1, ReturnMatches
       DEF NoSuchAsset, GetAssetFails, UseCachedAsset, ReturnError, ReturnData, TypeOK,
           EntriesMatch
<1>5. CASE MissAsset(c)
  <2> DEFINE n == [k EXCEPT !.pc = "download"]
  <2>1. n \in Call /\ n.found = k.found /\ n.pc = "download"
    BY <1>1 DEF Call
  <2>2. Become(c, n)
    BY <1>5 DEF MissAsset
  <2> HIDE DEF n
  <2>3. call' \in [Callers -> Call] /\ CallsMatch'
    BY <1>1, <2>1, <2>2, BecomeMatches
  <2> QED
    BY <1>5, <2>3 DEF MissAsset, TypeOK, EntriesMatch
<1>6. CASE Download(c)
  <2> DEFINE n == [k EXCEPT !.pc = "store", !.body = k.tag]
  <2>1. n \in Call /\ n.found = k.found /\ n.tag = n.body
    BY <1>1 DEF Call
  <2>2. Become(c, n)
    BY <1>6 DEF Download
  <2> HIDE DEF n
  <2>3. call' \in [Callers -> Call] /\ CallsMatch'
    BY <1>1, <2>1, <2>2, BecomeMatches
  <2> QED
    BY <1>6, <2>3 DEF Download, TypeOK, EntriesMatch
<1>7. CASE StoreAsset(c)
  <2>1. k.tag = k.body
    BY <1>7 DEF StoreAsset, CallsMatch
  <2>2. StoreEntry(s, k.body, k.body, "git")
    BY <1>7, <2>1 DEF StoreAsset
  <2>3. [error |-> FALSE, body |-> 0] \in Result
    BY DEF Result
  <2>4. /\ cache' \in [Sources -> Entry] /\ EntriesMatch'
        /\ ticker' \in {"none", "http", "git"}
    BY <1>1, <2>2, StoreEntryMatches
  <2> QED
    BY <1>7, <2>3, <2>4, ReturnMatches DEF StoreAsset, ReturnData, TypeOK
<1> QED
  BY <1>2, <1>3, <1>4, <1>5, <1>6, <1>7 DEF GitStep

\* The purges, time, the servers and restarts.
LEMMA OtherMatches ==
    ASSUME Matching,
           \/ PurgeHttp \/ BeginPurgeGit \/ EndPurgeGit \/ Restart
           \/ \E s \in Sources : BecomeIdle(s) \/ Publish(s)
    PROVE  Matching'
<1> USE DEF Matching
<1>1. CASE PurgeHttp \/ EndPurgeGit
  BY <1>1, PurgedMatches DEF PurgeHttp, EndPurgeGit, TypeOK, CallsMatch
<1>2. CASE BeginPurgeGit
  BY <1>2 DEF BeginPurgeGit, TypeOK, EntriesMatch, CallsMatch
<1>3. CASE Restart
  <2>1. NoEntry.tag = NoEntry.body /\ NoCall.found = NoEntry /\ NoCall.pc = "idle"
    BY DEF NoEntry, NoCall
  <2> QED
    BY <1>3, <2>1, NoCallType DEF Restart, TypeOK, EntriesMatch, CallsMatch
<1>4. ASSUME NEW s \in Sources, BecomeIdle(s)
      PROVE  Matching'
  <2> DEFINE e == [cache[s] EXCEPT !.idle = TRUE]
  <2>1. cache[s] \in Entry /\ cache[s].tag = cache[s].body
    BY DEF TypeOK, EntriesMatch
  <2>2. e \in Entry /\ e.tag = e.body
    BY <2>1 DEF Entry
  <2>3. cache' = [cache EXCEPT ![s] = e]
    BY <1>4 DEF BecomeIdle
  <2> HIDE DEF e
  <2> QED
    BY <1>4, <2>2, <2>3, SetEntryMatches DEF BecomeIdle, TypeOK, CallsMatch
<1>5. ASSUME NEW s \in Sources, Publish(s)
      PROVE  Matching'
  BY <1>5 DEF Publish, TypeOK, EntriesMatch, CallsMatch
<1> QED
  BY <1>1, <1>2, <1>3, <1>4, <1>5

\* The types are kept and everything cached or copied matches its validators.
THEOREM MatchingHolds == Spec => []Matching
<1>1. Init => Matching
  <2>1. NoEntry.tag = NoEntry.body /\ NoCall.found = NoEntry /\ NoCall.pc = "idle"
    BY DEF NoEntry, NoCall
  <2>2. [error |-> TRUE, body |-> 0] \in Result
    BY DEF Result
  <2>3. Init => TypeOK
    <3> DEFINE none == [error |-> TRUE, body |-> 0]
    <3> HIDE DEF none
    <3>1. none \in Result
      BY <2>2 DEF none
    <3>2. Init => result = [c \in Callers |-> none]
      BY DEF Init, none
    <3>3. Init => result \in [Callers -> Result]
      BY <3>1, <3>2
    <3>4. Init => /\ remote \in [Sources -> Nat] /\ cache \in [Sources -> Entry]
                  /\ call \in [Callers -> Call]
      BY NoCallType DEF Init
    <3> QED
      BY <3>3, <3>4 DEF Init, TypeOK
  <2>4. Init => EntriesMatch /\ CallsMatch
    BY <2>1 DEF Init, EntriesMatch, CallsMatch
  <2> QED
    BY <2>3, <2>4 DEF Matching
<1>2. Matching /\ [Next]_vars => Matching'
  <2> SUFFICES ASSUME Matching, [Next]_vars PROVE Matching'
    OBVIOUS
  <2>1. CASE UNCHANGED vars
    BY <2>1 DEF vars, Matching, TypeOK, EntriesMatch, CallsMatch
  <2> QED
    BY <2>1, HttpMatches, GitMatches, OtherMatches DEF Next
<1> QED
  BY <1>1, <1>2, PTL DEF Spec

\* The validators of an entry belong to its data, however many goroutines store,
\* put back and purge entries.
THEOREM EntriesAlwaysMatch == Spec => []EntriesMatch
<1>1. Matching => EntriesMatch
  BY DEF Matching
<1> QED
  BY <1>1, MatchingHolds, PTL

-----------------------------------------------------------------------------
(* The download as one read of the remote source *)

\* A call that goes on as k goes on as ReadOf(k) in the abstraction.
LEMMA BecomeReads ==
    ASSUME TypeOK, NEW c \in Callers, NEW k, Become(c, k)
    PROVE  reads' = [reads EXCEPT ![c] = ReadOf(k)]
<1>1. call' = [call EXCEPT ![c] = k] /\ call \in [Callers -> Call]
  BY DEF Become, TypeOK
<1> QED
  BY <1>1 DEF reads

\* No call in the one is no call in the other.
LEMMA NoCallReads == ReadOf(NoCall) = Reads!NoCall
<1>1. NoCall.pc = "idle" /\ NoCall.source = CHOOSE s \in Sources : TRUE
  BY DEF NoCall
<1>2. Sampled(NoCall) = 0
  BY <1>1 DEF Sampled
<1> QED
  BY <1>1, <1>2 DEF ReadOf, Reads!NoCall

\* A step that leaves the call, its result and the source alone is a stutter.
LEMMA Stutter ==
    ASSUME UNCHANGED <<remote, call, result>>
    PROVE  UNCHANGED <<remote, reads, returned>>
  BY DEF reads, returned

\* A call begins.
LEMMA BeginReads ==
    ASSUME TypeOK, NEW c \in Callers, NEW s \in Sources, NEW k, Become(c, k),
           call[c].pc = "idle", k.pc = "request", k.source = s,
           UNCHANGED <<remote, result>>
    PROVE  Reads!Begin(c, s)
<1>1. reads[c].state = "none"
  BY DEF reads, ReadOf
<1>2. Sampled(k) = 0
  BY DEF Sampled
<1>3. ReadOf(k) = [state |-> "reading", source |-> s, value |-> 0]
  BY <1>2 DEF ReadOf
<1> QED
  BY <1>1, <1>3, BecomeReads DEF Reads!Begin, returned

\* A call samples its source.
LEMMA SampleReads ==
    ASSUME TypeOK, NEW c \in Callers, NEW k, Become(c, k),
           call[c].pc # "idle", k.pc # "idle", k.source = call[c].source,
           Sampled(k) = remote[call[c].source],
           UNCHANGED <<remote, result>>
    PROVE  Reads!Sample(c)
<1>1. reads[c] = [state |-> "reading", source |-> call[c].source, value |-> Sampled(call[c])]
  BY DEF reads, ReadOf
<1>2. ReadOf(k) = [state |-> "reading", source |-> call[c].source,
                   value |-> remote[call[c].source]]
  BY DEF ReadOf
<1>3. ReadOf(k) = [reads[c] EXCEPT !.value = remote[reads[c].source]]
  <2> DEFINE v == remote[call[c].source]
  <2>1. reads[c].source = call[c].source
    BY <1>1
  <2> HIDE DEF v
  <2>2. [reads[c] EXCEPT !.value = v]
          = [state |-> "reading", source |-> call[c].source, value |-> v]
    BY <1>1
  <2> QED
    BY <1>2, <2>1, <2>2 DEF v
<1>4. reads' = [reads EXCEPT ![c] = [reads[c] EXCEPT !.value = remote[reads[c].source]]]
  BY <1>3, BecomeReads
<1> QED
  BY <1>1, <1>4 DEF Reads!Sample, returned

\* A call returns what it has sampled, or no data.
LEMMA ReturnReads ==
    ASSUME TypeOK, NEW c \in Callers, NEW r, Return(c, r), call[c].pc # "idle",
           r.body \in {0, Sampled(call[c])}, UNCHANGED remote
    PROVE  Reads!Return(c)
<1>1. reads[c].state = "reading" /\ reads[c].value = Sampled(call[c])
  BY DEF reads, ReadOf
<1>2. reads' = [reads EXCEPT ![c] = Reads!NoCall]
  BY BecomeReads, NoCallReads DEF Return
<1>3. returned' = [returned EXCEPT ![c] = r.body]
  <2>1. result' = [result EXCEPT ![c] = r] /\ result \in [Callers -> Result]
    BY DEF Return, TypeOK
  <2> QED
    BY <2>1 DEF returned
<1> QED
  BY <1>1, <1>2, <1>3 DEF Reads!Return

\* The steps of a call on a URL.
LEMMA HttpReads ==
    ASSUME Matching, NEW c \in Callers, HttpStep(c)
    PROVE  [Reads!Next]_<<remote, reads, returned>>
<1> USE DEF Matching
<1> DEFINE k == call[c]
           s == k.source
<1>1. k \in Call
  BY CallFields
<1>2. ASSUME NEW u \in Urls, Get(c, u)
      PROVE  Reads!Next
  <2> DEFINE n == [NoCall EXCEPT !.pc = "request", !.source = u, !.found = cache[u]]
  <2>1. n.pc = "request" /\ n.source = u
    BY DEF NoCall
  <2>2. Become(c, n) /\ u \in Sources
    BY <1>2 DEF Get, Sources
  <2> HIDE DEF n
  <2> QED
    BY <1>2, <2>1, <2>2, BeginReads DEF Get, Reads!Next
<1>3. CASE ServeUnchanged(c)
  <2> DEFINE n == [k EXCEPT !.pc = "unchanged"]
  <2>1. n.pc = "unchanged" /\ n.source = s /\ n.found = k.found
    BY <1>1 DEF Call
  <2>2. Become(c, n) /\ k.found.tag = remote[s]
    BY <1>3 DEF ServeUnchanged
  <2>3. k.found.tag = k.found.body
    BY DEF CallsMatch
  <2> HIDE DEF n
  <2>4. Sampled(n) = remote[s]
    BY <2>1, <2>2, <2>3 DEF Sampled
  <2> QED
    BY <1>3, <2>1, <2>2, <2>4, SampleReads DEF ServeUnchanged, Reads!Next
<1>4. CASE ServeChanged(c)
  <2> DEFINE n == [k EXCEPT !.pc = "changed", !.tag = remote[s], !.body = remote[s]]
  <2>1. n.pc = "changed" /\ n.source = s /\ n.body = remote[s]
    BY <1>1 DEF Call
  <2>2. Become(c, n)
    BY <1>4 DEF ServeChanged
  <2> HIDE DEF n
  <2>3. Sampled(n) = remote[s]
    BY <2>1 DEF Sampled
  <2> QED
    BY <1>4, <2>1, <2>2, <2>3, SampleReads DEF ServeChanged, Reads!Next
<1>5. CASE GetFails(c)
  BY <1>5, ReturnReads DEF GetFails, ReturnError, Reads!Next
<1>6. CASE UseCached(c)
  <2>1. Sampled(k) = k.found.body
    BY <1>6 DEF UseCached, Sampled
  <2> QED
    BY <1>6, <2>1, ReturnReads DEF UseCached, ReturnData, Reads!Next
<1>7. CASE UseResponse(c)
  <2>1. Sampled(k) = k.body
    BY <1>7 DEF UseResponse, Sampled
  <2> QED
    BY <1>7, <2>1, ReturnReads DEF UseResponse, ReturnData, Reads!Next
<1> QED
  BY <1>2, <1>3, <1>4, <1>5, <1>6, <1>7 DEF HttpStep

\* The steps of a call on a release asset.
LEMMA GitReads ==
    ASSUME Matching, NEW c \in Callers, GitStep(c)
    PROVE  [Reads!Next]_<<remote, reads, returned>>
<1> USE DEF Matching
<1> DEFINE k == call[c]
           s == k.source
<1>1. k \in Call /\ s \in Sources /\ call \in [Callers -> Call]
  BY CallFields DEF TypeOK
<1>2. ASSUME NEW u \in Paths, GetAsset(c, u)
      PROVE  Reads!Next
  <2> DEFINE n == [NoCall EXCEPT !.pc = "request", !.source = u]
  <2>1. n.pc = "request" /\ n.source = u
    BY DEF NoCall
  <2>2. Become(c, n) /\ u \in Sources
    BY <1>2 DEF GetAsset, Sources
  <2> HIDE DEF n
  <2> QED
    BY <1>2, <2>1, <2>2, BeginReads DEF GetAsset, Reads!Next
<1>3. CASE ReadRelease(c)
  <2> DEFINE n == [k EXCEPT !.pc = "asset", !.tag = remote[s]]
  <2>1. n.pc = "asset" /\ n.source = s /\ n.tag = remote[s]
    BY <1>1 DEF Call
  <2>2. Become(c, n)
    BY <1>3 DEF ReadRelease
  <2> HIDE DEF n
  <2>3. Sampled(n) = remote[s]
    BY <2>1 DEF Sampled
  <2> QED
    BY <1>3, <2>1, <2>2, <2>3, SampleReads DEF ReadRelease, Reads!Next
<1>4. CASE NoSuchAsset(c) \/ GetAssetFails(c) \/ StoreAsset(c)
  BY <1>4, ReturnReads
     DEF NoSuchAsset, GetAssetFails, StoreAsset, ReturnError, ReturnData, Reads!Next
<1>5. CASE UseCachedAsset(c)
  <2>1. cache[s].body = Sampled(k)
    BY <1>1, <1>5 DEF UseCachedAsset, IsAssetUnchanged, EntriesMatch, Sampled
  <2> QED
    BY <1>5, <2>1, ReturnReads DEF UseCachedAsset, ReturnData, Reads!Next
<1>6. ASSUME NEW n, Become(c, n), ReadOf(n) = ReadOf(k), UNCHANGED <<remote, result>>
      PROVE  UNCHANGED <<remote, reads, returned>>
  <2>1. reads' = [reads EXCEPT ![c] = ReadOf(k)] /\ reads[c] = ReadOf(k)
    BY <1>6, BecomeReads DEF reads
  <2>2. reads' = reads
    BY <2>1 DEF reads
  <2> QED
    BY <1>6, <2>2 DEF returned
<1>7. CASE MissAsset(c)
  <2> DEFINE n == [k EXCEPT !.pc = "download"]
  <2>1. n.pc = "download" /\ n.source = s /\ n.tag = k.tag
    BY <1>1 DEF Call
  <2>2. Become(c, n)
    BY <1>7 DEF MissAsset
  <2> HIDE DEF n
  <2>3. ReadOf(n) = ReadOf(k)
    BY <1>7, <2>1 DEF MissAsset, ReadOf, Sampled
  <2> QED
    BY <1>6, <1>7, <2>2, <2>3 DEF MissAsset
<1>8. CASE Download(c)
  <2> DEFINE n == [k EXCEPT !.pc = "store", !.body = k.tag]
  <2>1. n.pc = "store" /\ n.source = s /\ n.tag = k.tag
    BY <1>1 DEF Call
  <2>2. Become(c, n)
    BY <1>8 DEF Download
  <2> HIDE DEF n
  <2>3. ReadOf(n) = ReadOf(k)
    BY <1>8, <2>1 DEF Download, ReadOf, Sampled
  <2> QED
    BY <1>6, <1>8, <2>2, <2>3 DEF Download
<1> QED
  BY <1>2, <1>3, <1>4, <1>5, <1>7, <1>8 DEF GitStep

\* The caches, the calls and the servers keep their types, for any number of
\* callers and sources: a copy is always a copy of something a source held.
THEOREM TypeCorrect == Spec => []TypeOK
<1>1. Matching => TypeOK
  BY DEF Matching
<1> QED
  BY <1>1, MatchingHolds, PTL

\* The caches implement the plain download: every call returns what its source
\* held at one moment between its start and its end, or no data.
THEOREM DownloadsReadRemote == Spec => ReadsRemote
<1>1. Init => Reads!Init
  <2>1. Init => reads = [c \in Callers |-> Reads!NoCall]
    BY NoCallReads DEF Init, reads
  <2>2. Init => returned = [c \in Callers |-> 0]
    BY DEF Init, returned
  <2> QED
    BY <2>1, <2>2 DEF Init, Reads!Init
<1>2. Matching /\ [Next]_vars => [Reads!Next]_<<remote, reads, returned>>
  <2> SUFFICES ASSUME Matching, [Next]_vars
               PROVE  [Reads!Next]_<<remote, reads, returned>>
    OBVIOUS
  <2>1. CASE PurgeHttp \/ BeginPurgeGit \/ EndPurgeGit \/ UNCHANGED vars
    BY <2>1, Stutter DEF PurgeHttp, BeginPurgeGit, EndPurgeGit, vars
  <2>2. CASE Restart
    <3>1. reads' = [c \in Callers |-> Reads!NoCall]
      BY <2>2, NoCallReads DEF Restart, reads
    <3>2. UNCHANGED <<remote, returned>>
      BY <2>2 DEF Restart, returned
    <3> QED
      BY <3>1, <3>2 DEF Reads!Abort, Reads!Next
  <2>3. ASSUME NEW s \in Sources, BecomeIdle(s)
        PROVE  UNCHANGED <<remote, reads, returned>>
    BY <2>3, Stutter DEF BecomeIdle
  <2>4. ASSUME NEW s \in Sources, Publish(s)
        PROVE  Reads!Next
    <3>1. UNCHANGED <<reads, returned>>
      BY <2>4 DEF Publish, reads, returned
    <3> QED
      BY <2>4, <3>1 DEF Publish, Reads!Publish, Reads!Next
  <2> QED
    BY <2>1, <2>2, <2>3, <2>4, HttpReads, GitReads DEF Next
<1> QED
  BY <1>1, <1>2, MatchingHolds, PTL DEF Spec, ReadsRemote, Reads!Spec, Reads!vars

-----------------------------------------------------------------------------
(* Data *)

\* A call that has been answered has data, and only one on an asset reads a release.
HasData(k) ==
    /\ k.pc = "unchanged" => k.found.body # 0
    /\ k.pc = "changed" => k.body # 0
    /\ k.pc \in {"asset", "download", "store"} => k.source \in Paths

CallsHaveData == \A c \in Callers : HasData(call[c])

\* A call goes on as k.
LEMMA BecomeHasData ==
    ASSUME TypeOK, CallsHaveData, NEW c \in Callers, NEW k, Become(c, k), HasData(k)
    PROVE  CallsHaveData'
<1>1. call \in [Callers -> Call]
  BY DEF TypeOK
<1>2. \A d \in Callers : call'[d] = IF d = c THEN k ELSE call[d]
  BY <1>1 DEF Become
<1> QED
  BY <1>2 DEF CallsHaveData

\* A call returns.
LEMMA ReturnHasData ==
    ASSUME TypeOK, CallsHaveData, NEW c \in Callers, NEW r, Return(c, r)
    PROVE  CallsHaveData'
<1>1. HasData(NoCall)
  BY DEF HasData, NoCall
<1> QED
  BY <1>1, BecomeHasData DEF Return

\* The steps of a call on a URL: only what the server holds is ever named by a
\* 304 or sent with a 200.
LEMMA HttpHasData ==
    ASSUME Matching, CallsHaveData, NEW c \in Callers, HttpStep(c)
    PROVE  CallsHaveData'
<1> USE DEF Matching
<1> DEFINE k == call[c]
<1>1. k \in Call /\ k.found.tag = k.found.body
  BY CallFields DEF CallsMatch
<1>2. ASSUME NEW u \in Urls, Get(c, u)
      PROVE  CallsHaveData'
  <2> DEFINE n == [NoCall EXCEPT !.pc = "request", !.source = u, !.found = cache[u]]
  <2>1. HasData(n)
    BY DEF HasData, NoCall
  <2> HIDE DEF n
  <2>2. Become(c, n)
    BY <1>2 DEF Get, n
  <2> QED
    BY <2>1, <2>2, BecomeHasData
<1>3. CASE ServeUnchanged(c)
  <2> DEFINE n == [k EXCEPT !.pc = "unchanged"]
  <2>1. n.pc = "unchanged" /\ n.found = k.found
    BY <1>1 DEF Call
  <2>2. Become(c, n) /\ k.found.tag # 0
    BY <1>3 DEF ServeUnchanged
  <2> HIDE DEF n
  <2>3. HasData(n)
    BY <1>1, <2>1, <2>2 DEF HasData
  <2> QED
    BY <2>2, <2>3, BecomeHasData
<1>4. CASE ServeChanged(c)
  <2> DEFINE r == remote[k.source]
             n == [k EXCEPT !.pc = "changed", !.tag = r, !.body = r]
  <2>1. Become(c, n) /\ r # 0
    BY <1>4 DEF ServeChanged
  <2>2. n.pc = "changed" /\ n.body = r
    BY <1>1 DEF Call
  <2> HIDE DEF n, r
  <2>3. HasData(n)
    BY <2>1, <2>2 DEF HasData
  <2> QED
    BY <2>1, <2>3, BecomeHasData
<1>5. CASE GetFails(c) \/ UseCached(c) \/ UseResponse(c)
  BY <1>5, ReturnHasData DEF GetFails, UseCached, UseResponse, ReturnError, ReturnData
<1> QED
  BY <1>2, <1>3, <1>4, <1>5 DEF HttpStep

\* The steps of a call on an asset.
LEMMA GitHasData ==
    ASSUME Matching, CallsHaveData, NEW c \in Callers, GitStep(c)
    PROVE  CallsHaveData'
<1> USE DEF Matching
<1> DEFINE k == call[c]
<1>1. k \in Call
  BY CallFields
<1>2. ASSUME NEW u \in Paths, GetAsset(c, u)
      PROVE  CallsHaveData'
  <2> DEFINE n == [NoCall EXCEPT !.pc = "request", !.source = u]
  <2>1. HasData(n)
    BY DEF HasData, NoCall
  <2> HIDE DEF n
  <2>2. Become(c, n)
    BY <1>2 DEF GetAsset, n
  <2> QED
    BY <2>1, <2>2, BecomeHasData
<1>3. CASE ReadRelease(c)
  <2> DEFINE r == remote[k.source]
             n == [k EXCEPT !.pc = "asset", !.tag = r]
  <2>1. n.pc = "asset" /\ n.source = k.source
    BY <1>1 DEF Call
  <2>2. Become(c, n) /\ k.source \in Paths
    BY <1>3 DEF ReadRelease
  <2> HIDE DEF n
  <2>3. HasData(n)
    BY <2>1, <2>2 DEF HasData
  <2> QED
    BY <2>2, <2>3, BecomeHasData
<1>4. CASE MissAsset(c)
  <2> DEFINE n == [k EXCEPT !.pc = "download"]
  <2>1. n.pc = "download" /\ n.source = k.source
    BY <1>1 DEF Call
  <2>2. Become(c, n) /\ k.source \in Paths
    BY <1>4 DEF MissAsset, CallsHaveData, HasData
  <2> HIDE DEF n
  <2>3. HasData(n)
    BY <2>1, <2>2 DEF HasData
  <2> QED
    BY <2>2, <2>3, BecomeHasData
<1>5. CASE Download(c)
  <2> DEFINE n == [k EXCEPT !.pc = "store", !.body = k.tag]
  <2>1. n.pc = "store" /\ n.source = k.source
    BY <1>1 DEF Call
  <2>2. Become(c, n) /\ k.source \in Paths
    BY <1>5 DEF Download, CallsHaveData, HasData
  <2> HIDE DEF n
  <2>3. HasData(n)
    BY <2>1, <2>2 DEF HasData
  <2> QED
    BY <2>2, <2>3, BecomeHasData
<1>6. CASE NoSuchAsset(c) \/ UseCachedAsset(c) \/ GetAssetFails(c) \/ StoreAsset(c)
  BY <1>6, ReturnHasData
     DEF NoSuchAsset, UseCachedAsset, GetAssetFails, StoreAsset, ReturnError, ReturnData
<1> QED
  BY <1>2, <1>3, <1>4, <1>5, <1>6 DEF GitStep

LEMMA NextHasData ==
    ASSUME Matching, CallsHaveData, [Next]_vars
    PROVE  CallsHaveData'
<1>1. CASE UNCHANGED call
  BY <1>1 DEF CallsHaveData
<1>2. CASE Restart
  <2>1. HasData(NoCall)
    BY DEF HasData, NoCall
  <2> QED
    BY <1>2, <2>1 DEF Restart, CallsHaveData
<1>3. CASE \E c \in Callers : HttpStep(c) \/ GitStep(c)
  BY <1>3, HttpHasData, GitHasData
<1>4. UNCHANGED call \/ Restart \/ \E c \in Callers : HttpStep(c) \/ GitStep(c)
  BY DEF Next, vars, PurgeHttp, BeginPurgeGit, EndPurgeGit, BecomeIdle, Publish
<1> QED
  BY <1>1, <1>2, <1>3, <1>4

\* Who returns, and with what.
LEMMA ReturnChanges ==
    ASSUME TypeOK, NEW c \in Callers, NEW d \in Callers, NEW r, Return(d, r),
           result'[c] # result[c]
    PROVE  c = d /\ result'[c] = r
<1>1. result \in [Callers -> Result] /\ result' = [result EXCEPT ![d] = r]
  BY DEF TypeOK, Return
<1> QED
  BY <1>1

\* A step on a URL that ends a call without an error returns what the call has.
LEMMA StepReturnsData ==
    ASSUME TypeOK, CallsHaveData, [Next]_vars, NEW c \in Callers, call[c].source \in Urls
    PROVE  ReturnsData(c)
<1> SUFFICES ASSUME call[c].pc \notin {"idle", "request"}, result'[c] # result[c],
                    ~result'[c].error
             PROVE  result'[c].body # 0
  BY DEF ReturnsData
<1> DEFINE k == call[c]
<1>1. HasData(k) /\ k.source \notin Paths
  BY CacheAssumption DEF CallsHaveData
<1>2. PICK d \in Callers : HttpStep(d) \/ GitStep(d)
  BY DEF Next, vars, PurgeHttp, BeginPurgeGit, EndPurgeGit, Restart, BecomeIdle, Publish
<1>3. CASE HttpStep(d)
  <2>1. CASE GetFails(d)
    <3>1. result'[c] = [error |-> TRUE, body |-> 0]
      BY <2>1, ReturnChanges DEF GetFails, ReturnError
    <3> QED
      BY <3>1
  <2>2. CASE UseCached(d)
    <3>1. c = d /\ result'[c] = [error |-> FALSE, body |-> call[d].found.body]
      BY <2>2, ReturnChanges DEF UseCached, ReturnData
    <3> QED
      BY <1>1, <2>2, <3>1 DEF UseCached, HasData
  <2>3. CASE UseResponse(d)
    <3>1. c = d /\ result'[c] = [error |-> FALSE, body |-> call[d].body]
      BY <2>3, ReturnChanges DEF UseResponse, ReturnData
    <3> QED
      BY <1>1, <2>3, <3>1 DEF UseResponse, HasData
  <2>4. CASE (\E s \in Urls : Get(d, s)) \/ ServeUnchanged(d) \/ ServeChanged(d)
    BY <2>4 DEF Get, ServeUnchanged, ServeChanged
  <2> QED
    BY <1>3, <2>1, <2>2, <2>3, <2>4 DEF HttpStep
<1>4. CASE GitStep(d)
  <2>1. CASE GetAssetFails(d)
    <3>1. result'[c] = [error |-> TRUE, body |-> 0]
      BY <2>1, ReturnChanges DEF GetAssetFails, ReturnError
    <3> QED
      BY <3>1
  <2>2. CASE NoSuchAsset(d)
    <3>1. c = d
      BY <2>2, ReturnChanges DEF NoSuchAsset, ReturnData
    <3> QED
      BY <2>2, <3>1 DEF NoSuchAsset
  <2>3. CASE UseCachedAsset(d) \/ StoreAsset(d)
    <3>1. c = d
      BY <2>3, ReturnChanges DEF UseCachedAsset, StoreAsset, ReturnData
    <3> QED
      BY <1>1, <2>3, <3>1 DEF UseCachedAsset, StoreAsset, HasData
  <2>4. CASE (\E s \in Paths : GetAsset(d, s)) \/ ReadRelease(d) \/ MissAsset(d) \/ Download(d)
    BY <2>4 DEF GetAsset, ReadRelease, MissAsset, Download
  <2> QED
    BY <1>4, <2>1, <2>2, <2>3, <2>4 DEF GitStep
<1> QED
  BY <1>2, <1>3, <1>4

\* A call on an https URL that ends without an error has data, whatever other
\* calls and the purges do to its entry between the request and the answer.
THEOREM UrlsAlwaysReturnData == Spec => UrlsReturnData
<1>1. Init => CallsHaveData
  <2>1. HasData(NoCall)
    BY DEF HasData, NoCall
  <2> QED
    BY <2>1 DEF Init, CallsHaveData
<1>2. Matching /\ CallsHaveData /\ [Next]_vars => CallsHaveData'
  BY NextHasData
<1>3. Matching /\ CallsHaveData /\ [Next]_vars
        => [\A c \in Callers : call[c].source \in Urls => ReturnsData(c)]_vars
  BY StepReturnsData DEF Matching
<1> QED
  BY <1>1, <1>2, <1>3, MatchingHolds, PTL DEF Spec, UrlsReturnData
=============================================================================

----------------------------- MODULE DownloadCache -----------------------------
(****************************************************************************)
(* The two in-memory caches that downloads go through: GetFromCache for an  *)
(* https URL, GetStackDataUsingGit for an asset of a GitHub release.  Each  *)
(* section that holds a lock is one step, each request to a server another. *)
(*                                                                          *)
(* The contents of a source are numbered as they are published.  A number   *)
(* also stands for what identifies the contents: the ETag that the server   *)
(* sends with them, or the id, creation time and size of the asset, which   *)
(* GitHub never reuses.  0 stands for none.                                 *)
(****************************************************************************)
EXTENDS Naturals

CONSTANTS
    Callers,      \* the goroutines that download
    Urls,         \* https URLs
    Paths,        \* hostname:organization:project:release:asset of GitHub
    Cacheable,    \* the contents that come with all that caching needs
    MaxContents   \* MaxContents[s]: how often the contents of s change

Sources == Urls \cup Paths

ASSUME CacheAssumption ==
    /\ Urls \cap Paths = {} /\ Sources # {}
    /\ Cacheable \subseteq Nat \ {0}
    /\ MaxContents \in [Sources -> Nat]

VARIABLES
    remote,   \* remote[s]: what the server holds for s
    cache,    \* httpCache and gitCache
    ticker,   \* the cache that the one purge ticker works on, once it is started
    purging,  \* gitPurgeCache is looping over gitCache, with cacheLock
    call,     \* the call of each goroutine
    result    \* what its last call returned

vars == <<remote, cache, ticker, purging, call, result>>

\* cacheValue or gitCacheData; `idle' once lastUsed is more than 12 hours ago.
Entry == [tag : Cacheable \cup {0}, body : Nat, idle : BOOLEAN]

NoEntry == [tag |-> 0, body |-> 0, idle |-> FALSE]

Call == [pc : {"idle", "request", "unchanged", "changed", "asset", "download", "store"},
         source : Sources,
         found : Entry,   \* cacheData
         tag : Nat,       \* etag, or what identifies the asset
         body : Nat]      \* b, or indexBytes of the inner scope

NoCall == [pc |-> "idle", source |-> CHOOSE s \in Sources : TRUE, found |-> NoEntry,
           tag |-> 0, body |-> 0]

Result == [error : BOOLEAN, body : Nat]

Init ==
    /\ remote = [s \in Sources |-> 0]
    /\ cache = [s \in Sources |-> NoEntry]
    /\ ticker = "none" /\ purging = FALSE
    /\ call = [c \in Callers |-> NoCall]
    /\ result = [c \in Callers |-> [error |-> TRUE, body |-> 0]]

-----------------------------------------------------------------------------
\* The call of c goes on as k.
Become(c, k) == call' = [call EXCEPT ![c] = k]

Return(c, r) ==
    /\ Become(c, NoCall)
    /\ result' = [result EXCEPT ![c] = r]

ReturnData(c, b) == Return(c, [error |-> FALSE, body |-> b])

ReturnError(c) == Return(c, [error |-> TRUE, body |-> 0])

StartTicker(kind) == ticker' = IF ticker = "none" THEN kind ELSE ticker

\* (A variant with a fault: what comes without an ETag is cached as well.)
StoreEntryAlways(s, tag, body, kind) ==
    /\ StartTicker(kind)
    /\ cache' = [cache EXCEPT ![s] = [tag |-> tag, body |-> body, idle |-> FALSE]]

\* (A variant with a fault: the entry in the map gets the new data but keeps its ETag.)
StoreEntryKeepsTag(s, tag, body, kind) ==
    /\ StartTicker(kind)
    /\ cache' = [cache EXCEPT ![s] = [tag |-> IF @.tag = 0 THEN tag ELSE @.tag,
                                      body |-> body, idle |-> FALSE]]

\* Store what was read, or drop what is there when it cannot be cached.
StoreEntry(s, tag, body, kind) ==
    IF tag \in Cacheable
    THEN /\ StartTicker(kind)
         /\ cache' = [cache EXCEPT ![s] = [tag |-> tag, body |-> body, idle |-> FALSE]]
    ELSE /\ cache' = [cache EXCEPT ![s] = NoEntry]
         /\ UNCHANGED ticker

-----------------------------------------------------------------------------
(* GetFromCache *)

\* Take a copy of the entry; a purge of the other cache holds the same lock.
Get(c, s) ==
    /\ call[c].pc = "idle" /\ s \in Urls
    /\ ~purging
    /\ Become(c, [NoCall EXCEPT !.pc = "request", !.source = s, !.found = cache[s]])
    /\ UNCHANGED <<remote, cache, ticker, purging, result>>

\* The server has what the ETag of the copy names: 304.
ServeUnchanged(c) ==
    LET s == call[c].source
    IN  /\ call[c].pc = "request" /\ s \in Urls
        /\ remote[s] # 0 /\ call[c].found.tag = remote[s]
        /\ Become(c, [call[c] EXCEPT !.pc = "unchanged"])
        /\ UNCHANGED <<remote, cache, ticker, purging, result>>

\* It has something else, or was given no ETag: 200.
ServeChanged(c) ==
    LET s == call[c].source
    IN  /\ call[c].pc = "request" /\ s \in Urls
        /\ remote[s] # 0 /\ call[c].found.tag # remote[s]
        /\ Become(c, [call[c] EXCEPT !.pc = "changed", !.tag = remote[s], !.body = remote[s]])
        /\ UNCHANGED <<remote, cache, ticker, purging, result>>

\* Another status, or the request or reading its body fails.
GetFails(c) ==
    /\ call[c].pc \in {"request", "changed"} /\ call[c].source \in Urls
    /\ ReturnError(c)
    /\ UNCHANGED <<remote, cache, ticker, purging>>

\* (A variant with a fault: the body is read from the map again.)
UseCachedAgain(c) ==
    LET s == call[c].source
    IN  /\ call[c].pc = "unchanged"
        /\ ~purging
        /\ cache' = [cache EXCEPT ![s].idle = FALSE]
        /\ ReturnData(c, cache[s].body)
        /\ UNCHANGED <<remote, ticker, purging>>

\* 304: put the copy back, used now, whatever the map has by then.
UseCached(c) ==
    /\ call[c].pc = "unchanged"
    /\ ~purging
    /\ cache' = [cache EXCEPT ![call[c].source] = [call[c].found EXCEPT !.idle = FALSE]]
    /\ ReturnData(c, call[c].found.body)
    /\ UNCHANGED <<remote, ticker, purging>>

\* 200
UseResponse(c) ==
    /\ call[c].pc = "changed"
    /\ ~purging
    /\ StoreEntry(call[c].source, call[c].tag, call[c].body, "http")
    /\ ReturnData(c, call[c].body)
    /\ UNCHANGED <<remote, purging>>

-----------------------------------------------------------------------------
(* GetStackDataUsingGit *)

GetAsset(c, s) ==
    /\ call[c].pc = "idle" /\ s \in Paths
    /\ Become(c, [NoCall EXCEPT !.pc = "request", !.source = s])
    /\ UNCHANGED <<remote, cache, ticker, purging, result>>

\* GetReleaseByTag: the release lists its assets; the loop looks for the name.
ReadRelease(c) ==
    LET s == call[c].source
    IN  /\ call[c].pc = "request" /\ s \in Paths
        /\ remote[s] # 0
        /\ Become(c, [call[c] EXCEPT !.pc = "asset", !.tag = remote[s]])
        /\ UNCHANGED <<remote, cache, ticker, purging, result>>

\* No asset of the release has the name: the loop ends without an error.
NoSuchAsset(c) ==
    /\ call[c].pc = "request" /\ call[c].source \in Paths
    /\ remote[call[c].source] = 0
    /\ ReturnData(c, 0)
    /\ UNCHANGED <<remote, cache, ticker, purging>>

\* (A variant with a fault: what the cache has is not compared with the asset.)
IsAnyAsset(entry, tag) == entry.tag # 0

IsAssetUnchanged(entry, tag) == entry.tag # 0 /\ entry.tag = tag

\* lastUsed is set in a copy that is not put back.
UseCachedAsset(c) ==
    LET s == call[c].source
    IN  /\ call[c].pc = "asset"
        /\ IsAssetUnchanged(cache[s], call[c].tag)
        /\ ReturnData(c, cache[s].body)
        /\ UNCHANGED <<remote, cache, ticker, purging>>

MissAsset(c) ==
    /\ call[c].pc = "asset"
    /\ ~IsAssetUnchanged(cache[call[c].source], call[c].tag)
    /\ Become(c, [call[c] EXCEPT !.pc = "download"])
    /\ UNCHANGED <<remote, cache, ticker, purging, result>>

\* DownloadReleaseAsset by the id: an asset that was replaced is not found.
Download(c) ==
    /\ call[c].pc = "download"
    /\ remote[call[c].source] = call[c].tag
    /\ Become(c, [call[c] EXCEPT !.pc = "store", !.body = call[c].tag])
    /\ UNCHANGED <<remote, cache, ticker, purging, result>>

GetAssetFails(c) ==
    /\ call[c].pc \in {"request", "download"} /\ call[c].source \in Paths
    /\ ReturnError(c)
    /\ UNCHANGED <<remote, cache, ticker, purging>>

\* The data goes to the cache, but into the indexBytes of the inner scope: the
\* outer one is returned, which has none.  gitCacheLock does not keep this step
\* out of a purge; the runtime may also stop the process then (see Restart).
StoreAsset(c) ==
    /\ call[c].pc = "store"
    /\ StoreEntry(call[c].source, call[c].tag, call[c].body, "git")
    /\ ReturnData(c, 0)
    /\ UNCHANGED <<remote, purging>>

-----------------------------------------------------------------------------
(* Purging, time, the servers *)

Purged(sources) == [s \in Sources |-> IF s \in sources /\ cache[s].idle THEN NoEntry ELSE cache[s]]

PurgeHttp ==
    /\ ticker = "http"
    /\ cache' = Purged(Urls)
    /\ UNCHANGED <<remote, ticker, purging, call, result>>

BeginPurgeGit ==
    /\ ticker = "git" /\ ~purging
    /\ purging' = TRUE
    /\ UNCHANGED <<remote, cache, ticker, call, result>>

EndPurgeGit ==
    /\ purging
    /\ cache' = Purged(Paths)
    /\ purging' = FALSE
    /\ UNCHANGED <<remote, ticker, call, result>>

\* 12 hours pass without a use of the entry.
BecomeIdle(s) ==
    /\ cache[s] # NoEntry
    /\ cache' = [cache EXCEPT ![s].idle = TRUE]
    /\ UNCHANGED <<remote, ticker, purging, call, result>>

Publish(s) ==
    /\ remote[s] < MaxContents[s]
    /\ remote' = [remote EXCEPT ![s] = @ + 1]
    /\ UNCHANGED <<cache, ticker, purging, call, result>>

\* The process restarts, or the Go runtime stops it.
Restart ==
    /\ cache' = [s \in Sources |-> NoEntry]
    /\ ticker' = "none" /\ purging' = FALSE
    /\ call' = [c \in Callers |-> NoCall]
    /\ UNCHANGED <<remote, result>>

HttpStep(c) ==
    \/ \E s \in Urls : Get(c, s)
    \/ ServeUnchanged(c) \/ ServeChanged(c) \/ GetFails(c) \/ UseCached(c) \/ UseResponse(c)

GitStep(c) ==
    \/ \E s \in Paths : GetAsset(c, s)
    \/ ReadRelease(c) \/ NoSuchAsset(c) \/ UseCachedAsset(c) \/ MissAsset(c)
    \/ Download(c) \/ GetAssetFails(c) \/ StoreAsset(c)

Next ==
    \/ \E c \in Callers : HttpStep(c) \/ GitStep(c)
    \/ PurgeHttp \/ BeginPurgeGit \/ EndPurgeGit \/ Restart
    \/ \E s \in Sources : BecomeIdle(s) \/ Publish(s)

Spec == Init /\ [][Next]_vars

-----------------------------------------------------------------------------
(* Properties *)

TypeOK ==
    /\ remote \in [Sources -> Nat]
    /\ cache \in [Sources -> Entry]
    /\ ticker \in {"none", "http", "git"} /\ purging \in BOOLEAN
    /\ call \in [Callers -> Call]
    /\ result \in [Callers -> Result]

\* The validators of an entry belong to its data, although goroutines put back
\* copies that may be older than what is in the map (cacheValue is a struct
\* "because multiple threads will be using the values concurrently").
EntriesMatch == \A s \in Sources : cache[s].tag = cache[s].body

\* The call of c has found its source and ends: without an error it has data.
ReturnsData(c) ==
    /\ call[c].pc \notin {"idle", "request"}
    /\ result'[c] # result[c] /\ ~result'[c].error
    => result'[c].body # 0

\* A call on an https URL that ends without an error has data, even when the
\* entry is purged between the request that names its ETag and the 304.  (The
\* first download of a release asset ends so without data.)
UrlsReturnData == [][\A c \in Callers : call[c].source \in Urls => ReturnsData(c)]_vars

\* What a call has sampled of its source: with the 304 or the 200, or with the
\* list of assets in the release.
Sampled(k) ==
    CASE k.pc = "unchanged" -> k.found.body
      [] k.pc = "changed" -> k.body
      [] k.pc \in {"asset", "download", "store"} -> k.tag
      [] OTHER -> 0

ReadOf(k) == [state |-> IF k.pc = "idle" THEN "none" ELSE "reading",
              source |-> k.source, value |-> Sampled(k)]

reads == [c \in Callers |-> ReadOf(call[c])]

returned == [c \in Callers |-> result[c].body]

Reads == INSTANCE RemoteRead WITH call <- reads, result <- returned

\* Through all purges, replacements and late write-backs, what a download returns
\* is what its source held at some moment during the call: never older contents.
ReadsRemote == Reads!Spec
=============================================================================

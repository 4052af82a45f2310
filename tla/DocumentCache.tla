--------------------------- MODULE DocumentCache ---------------------------
(***************************************************************************)
(* The cache of fetched documents (core/cache), the tools webfetch and     *)
(* cache_docs and the scheduler's cleanDocs that use it.  A document is a  *)
(* file of its own; the index metadata.json is read, changed and written   *)
(* by each call across awaits, with no lock.                               *)
(***************************************************************************)
EXTENDS Naturals, Sequences, FiniteSets

CONSTANTS
  Callers,     \* concurrent calls of the tools and of the scheduler
  Urls,
  File,        \* urlToFilename: url -> file name
  MaxClock,    \* ticks of the clock
  MaxCalls,    \* calls made
  MaxFailures, \* bound: failing writes and unlinks
  SizeLimit    \* documents above which cleanDocs prunes (10 MB)

VARIABLES
  index,       \* metadata.json: file name -> entry
  torn,        \* metadata.json is cut short: a writer is at it, or was killed
  docs,        \* the documents: file name -> the url that was fetched, "cut", or "none"
  clock,
  caller,
  calls,
  disturbed,   \* two calls overlapped, or the process was killed, when one wrote
  spoiled,     \* names whose last write or removal failed half way
  failures

diskVars == <<index, torn, docs>>
ghostVars == <<disturbed, spoiled, failures>>
cacheVars == <<diskVars, clock, caller, calls, ghostVars>>

Names == {File[url] : url \in Urls}
NoEntry == [url |-> "none", fetchedAt |-> 0, expiresAt |-> 0]
Empty == [name \in Names |-> NoEntry]
Listed(metadata) == {name \in Names : metadata[name] # NoEntry}
Expired(entry) == entry.expiresAt < clock

(* A caller's url, the copy of the index it has read, the urls it still is *)
(* to remove, whether it fetches after that, the document it found, and    *)
(* when it began to store what it fetched.                                 *)
Idle == [at |-> "idle", url |-> "none", metadata |-> Empty, doomed |-> <<>>,
         fetches |-> FALSE, answer |-> "none", now |-> 0]

Init ==
  /\ index = Empty
  /\ torn = FALSE
  /\ docs = [name \in Names |-> "none"]
  /\ clock = 0
  /\ caller = [c \in Callers |-> Idle]
  /\ calls = 0
  /\ disturbed = FALSE /\ spoiled = {} /\ failures = 0

(* readMetadata(): a file that does not parse counts as an empty index.    *)
ReadMetadata == IF torn THEN Empty ELSE index

Tick ==
  /\ clock < MaxClock /\ clock' = clock + 1
  /\ UNCHANGED <<diskVars, caller, calls, ghostVars>>

Goes(c, record) == caller' = [caller EXCEPT ![c] = record]
FileFails == failures < MaxFailures /\ failures' = failures + 1
Others(c) == {d \in Callers \ {c} : caller[d].at # "idle"}

Start(c, at, url, fetches) ==
  /\ caller[c].at = "idle" /\ calls < MaxCalls
  /\ calls' = calls + 1
  /\ Goes(c, [Idle EXCEPT !.at = at, !.url = url, !.fetches = fetches])
  /\ disturbed' = (disturbed \/ Others(c) # {})
  /\ UNCHANGED <<diskVars, clock, spoiled, failures>>

(* webfetch with its default, cache: true; cache_docs get and clear; the   *)
(* scheduler's cleanDocs.  list and stats only read.                       *)
Webfetch(c, url) == Start(c, "get", url, TRUE)
CacheDocsGet(c, url) == Start(c, "peek", url, FALSE)
CacheDocsClear(c) == Start(c, "clear", "none", FALSE)
CleanDocs(c) == Start(c, "stats", "none", FALSE)

(* What follows a document that was not found, or removed.                 *)
Continue(c, doomed) ==
  IF caller[c].fetches THEN [caller[c] EXCEPT !.at = "fetch"]
  ELSE IF doomed = <<>> THEN Idle
  ELSE [caller[c] EXCEPT !.at = "unlink", !.url = Head(doomed), !.doomed = Tail(doomed)]

(* get(): an expired entry is removed, and webfetch then goes on as if     *)
(* there had been none.                                                    *)
Get(c) ==
  LET entry == ReadMetadata[File[caller[c].url]]
  IN  /\ caller[c].at = "get"
      /\ Goes(c, [caller[c] EXCEPT
           !.at = IF entry = NoEntry THEN "fetch"
                  ELSE IF Expired(entry) THEN "unlink" ELSE "readDoc"])
      /\ UNCHANGED <<diskVars, clock, calls, ghostVars>>

(* getByFilename() takes an entry whatever its age.                        *)
GetByFilename(c) ==
  /\ caller[c].at = "peek"
  /\ Goes(c, IF ReadMetadata[File[caller[c].url]] = NoEntry THEN Idle
             ELSE [caller[c] EXCEPT !.at = "readDoc"])
  /\ UNCHANGED <<diskVars, clock, calls, ghostVars>>

ReadDoc(c) ==
  LET found == docs[File[caller[c].url]]
  IN  /\ caller[c].at = "readDoc"
      /\ Goes(c, IF found = "none" THEN Continue(c, <<>>)
                 ELSE [caller[c] EXCEPT !.at = "answered", !.answer = found])
      /\ UNCHANGED <<diskVars, clock, calls, ghostVars>>

Answered(c) ==
  /\ caller[c].at = "answered"
  /\ Goes(c, Idle)
  /\ UNCHANGED <<diskVars, clock, calls, ghostVars>>

(* The fetch fails, or succeeds and set() begins: the document is written. *)
Fetch(c) ==
  /\ caller[c].at = "fetch"
  /\ \/ Goes(c, Idle) /\ UNCHANGED docs
     \/ /\ docs' = [docs EXCEPT ![File[caller[c].url]] = caller[c].url]
        /\ Goes(c, [caller[c] EXCEPT !.at = "add", !.fetches = FALSE, !.now = clock])
  /\ UNCHANGED <<index, torn, clock, calls, ghostVars>>

(* The document cannot be written, or only a part of it; set() throws.     *)
WriteDocFails(c) ==
  LET name == File[caller[c].url]
  IN  /\ caller[c].at = "fetch"
      /\ FileFails
      /\ \/ UNCHANGED <<docs, spoiled>>
         \/ docs' = [docs EXCEPT ![name] = "cut"] /\ spoiled' = spoiled \cup {name}
      /\ Goes(c, Idle)
      /\ UNCHANGED <<index, torn, clock, calls, disturbed>>

(* set(), on: the index is read and the entry is put into the copy.        *)
ReadToAdd(c) ==
  LET now == caller[c].now
  IN  /\ caller[c].at = "add"
      /\ Goes(c, [caller[c] EXCEPT !.at = "write",
           !.metadata = [ReadMetadata EXCEPT ![File[caller[c].url]] =
             [url |-> caller[c].url, fetchedAt |-> now, expiresAt |-> now]]])
      /\ UNCHANGED <<diskVars, clock, calls, ghostVars>>

(* remove(): without a file to unlink it fails, and the entry stays.       *)
Unlink(c) ==
  LET name == File[caller[c].url]
  IN  /\ caller[c].at = "unlink"
      /\ docs' = [docs EXCEPT ![name] = "none"]
      /\ Goes(c, IF docs[name] = "none" THEN Continue(c, caller[c].doomed)
                 ELSE [caller[c] EXCEPT !.at = "delete"])
      /\ UNCHANGED <<index, torn, clock, calls, ghostVars>>

UnlinkFails(c) ==
  /\ caller[c].at = "unlink"
  /\ FileFails
  /\ Goes(c, Continue(c, caller[c].doomed))
  /\ UNCHANGED <<diskVars, clock, calls, disturbed, spoiled>>

(* Mutant of Without: the entry is looked up under the url.                *)
WithoutUrl(metadata, url) == metadata

Without(metadata, url) == [metadata EXCEPT ![File[url]] = NoEntry]

ReadToDelete(c) ==
  /\ caller[c].at = "delete"
  /\ Goes(c, [caller[c] EXCEPT !.at = "write",
       !.metadata = Without(ReadMetadata, caller[c].url)])
  /\ UNCHANGED <<diskVars, clock, calls, ghostVars>>

(* clear(): the listed files are unlinked, a failure is ignored, and then  *)
(* an empty index is written.                                              *)
Clear(c) ==
  LET listed == Listed(ReadMetadata)
  IN  /\ caller[c].at = "clear"
      /\ \E kept \in SUBSET listed :
           /\ IF kept = {} THEN UNCHANGED failures ELSE FileFails
           /\ docs' = [name \in Names |-> IF name \in listed \ kept THEN "none" ELSE docs[name]]
           /\ spoiled' = spoiled \cup kept
      /\ Goes(c, [caller[c] EXCEPT !.at = "write"])
      /\ UNCHANGED <<index, torn, clock, calls, disturbed>>

(* writeMetadata() cuts the file, then fills it.  The entry of the call's  *)
(* url is true again then; after a clear, that of every deleted document.  *)
CutMetadata(c) ==
  /\ caller[c].at = "write"
  /\ torn' = TRUE
  /\ Goes(c, [caller[c] EXCEPT !.at = "fill"])
  /\ UNCHANGED <<index, docs, clock, calls, ghostVars>>

FillMetadata(c) ==
  /\ caller[c].at = "fill"
  /\ index' = caller[c].metadata
  /\ torn' = FALSE
  /\ spoiled' = IF caller[c].url = "none" THEN {name \in spoiled : docs[name] # "none"}
                ELSE spoiled \ {File[caller[c].url]}
  /\ Goes(c, Continue(c, caller[c].doomed))
  /\ UNCHANGED <<docs, clock, calls, disturbed, failures>>

(* It fails: the index is as it was, or the file is left cut short.        *)
Touched(c) == IF caller[c].url = "none" THEN Listed(ReadMetadata) ELSE {File[caller[c].url]}
WriteMetadataFails(c) ==
  /\ FileFails
  /\ \/ caller[c].at = "write" /\ spoiled' = spoiled \cup Touched(c)
     \/ caller[c].at = "fill" /\ spoiled' = Names
  /\ Goes(c, Continue(c, caller[c].doomed))
  /\ UNCHANGED <<diskVars, clock, calls, disturbed>>

(* cleanDocs(): stats() finds too much, so the older half of what list()   *)
(* then finds is removed, one after the other; of the same age, any.       *)
Stats(c) ==
  /\ caller[c].at = "stats"
  /\ Goes(c, IF Cardinality(Listed(ReadMetadata)) <= SizeLimit THEN Idle
             ELSE [caller[c] EXCEPT !.at = "list"])
  /\ UNCHANGED <<diskVars, clock, calls, ghostVars>>

OlderHalves(metadata) ==
  LET Age(name) == metadata[name].fetchedAt
      listed == Listed(metadata)
  IN  {half \in [1..(Cardinality(listed) \div 2) -> listed] :
         /\ \A i, j \in DOMAIN half : i < j => half[i] # half[j] /\ Age(half[i]) <= Age(half[j])
         /\ \A name \in listed :
              \/ \E i \in DOMAIN half : half[i] = name
              \/ \A i \in DOMAIN half : Age(half[i]) <= Age(name)}

ListOlderHalf(c) ==
  /\ caller[c].at = "list"
  /\ \E half \in OlderHalves(ReadMetadata) :
       Goes(c, Continue(c, [i \in DOMAIN half |-> ReadMetadata[half[i]].url]))
  /\ UNCHANGED <<diskVars, clock, calls, ghostVars>>

(* The process ends; what is on disk stays.                                *)
Crash ==
  /\ \E c \in Callers : caller[c].at # "idle"
  /\ caller' = [c \in Callers |-> Idle]
  /\ disturbed' = TRUE
  /\ UNCHANGED <<diskVars, clock, calls, spoiled, failures>>

Step(c) ==
  \/ Get(c) \/ GetByFilename(c) \/ ReadDoc(c) \/ Answered(c) \/ Fetch(c) \/ ReadToAdd(c)
  \/ Unlink(c) \/ ReadToDelete(c) \/ Clear(c) \/ CutMetadata(c) \/ FillMetadata(c)
  \/ Stats(c) \/ ListOlderHalf(c)
  \/ WriteDocFails(c) \/ UnlinkFails(c) \/ WriteMetadataFails(c)

Next ==
  \/ \E c \in Callers :
       \/ \E url \in Urls : Webfetch(c, url) \/ CacheDocsGet(c, url)
       \/ CacheDocsClear(c) \/ CleanDocs(c) \/ Step(c)
  \/ Tick \/ Crash

Spec == Init /\ [][Next]_cacheVars

----------------------------------------------------------------------------
CacheTypeOK ==
  /\ \A name \in Names : /\ index[name].url \in Urls \cup {"none"}
                         /\ docs[name] \in Urls \cup {"none", "cut"}
  /\ \A c \in Callers : caller[c].url \in Urls \cup {"none"}
  /\ {torn, disturbed} \subseteq BOOLEAN /\ spoiled \subseteq Names /\ clock \in 0..MaxClock /\ calls \in 0..MaxCalls

Quiet == ~disturbed /\ \A c \in Callers : caller[c].at = "idle"

(* While calls come one at a time and none is cut short, only failing      *)
(* writes and unlinks part the index from the disk, and each only for the  *)
(* names it was about (all of them, if it leaves the index cut short),     *)
(* until a set or a removal of the name goes through.  For every other     *)
(* name the index lists the document that is on disk, under the url it was *)
(* fetched from, in any order of fetches, removals, prunings and clears,   *)
(* collisions of names and other failures included.                        *)
IndexIsTrueInTurn ==
  Quiet =>
    /\ torn => spoiled = Names
    /\ \A name \in Names \ spoiled : index[name].url = docs[name]

(* "Clear all cached documents" (operations.ts 118), read as: with nothing *)
(* listed, nothing is left.                                                *)
ClearLeavesNothing ==
  Quiet /\ ~torn /\ Listed(index) = {} => \A name \in Names : docs[name] = "none"

(* "Get cached document by URL" (operations.ts 12): what webfetch answers  *)
(* from the cache was fetched from the url it was asked for.               *)
CachedForThatUrl ==
  \A c \in Callers :
    caller[c].at = "answered" /\ caller[c].fetches => caller[c].answer = caller[c].url
============================================================================

-------------------------------- MODULE Listing --------------------------------
(***************************************************************************)
(* Listing.  A client walks a prefix as the tests do: it lists with a      *)
(* limit, takes the last entry as the start_after of the next listing, and *)
(* stops at an empty one.  A listing is a pipeline: IndexeddbLister        *)
(* fetches pages of keys, each in a transaction of its own (scan_page),    *)
(* HierarchyLister folds them into directories, IndexeddbLimitLister       *)
(* counts.  Between any two pages other clients, and tabs of releases      *)
(* without the sidecar, write and delete.  Paths are absolute keys: a root *)
(* is a part of every one of them.                                         *)
(***************************************************************************)
EXTENDS Keys, SequencesExt

CONSTANTS
  Names,        \* the keys that may be in the stores
  Busy,         \* those that come and go during the walk
  Populations,  \* what the data store can hold at first
  Sidecars,     \* the keys that can have a sidecar at first (orphans included)
  Foreign,      \* how many keys of third-party code are no strings
  Requests,     \* [prefix, recursive, limit, start_after] of the first listing
  DefaultPage,  \* DEFAULT of list_page_size
  PageFactor,   \* raw keys fetched for one entry of the limit
  UsizeMod      \* 2^32 on wasm32

Request == [prefix : Key, recursive : BOOLEAN, limit : Nat \cup {None},
            start_after : Key \cup {None}]

\* The locals of scan_page's loop.
Loop == [keys : Seq(Names), next_start_after : Key \cup {None}, lower : Key, lower_open : BOOLEAN,
         fetched : Seq(Names), short : BOOLEAN, over : BOOLEAN]

ASSUME ListingAssumption ==
  /\ Names \subseteq Key /\ IsFiniteSet(Names)
  /\ Busy \subseteq Names
  /\ Populations \cup Sidecars \subseteq SUBSET Names
  /\ Requests \subseteq Request
  /\ Foreign \in Nat
  /\ {DefaultPage, PageFactor, UsizeMod} \subseteq Nat \ {0}
  /\ None \notin Nat \cup Loop

VARIABLES
  data,      \* the keys of the data store
  meta,      \* the keys with a usable sidecar
  args,      \* the request of the listing
  lister,    \* IndexeddbLister
  scan,      \* the locals of scan_page's loop while its transaction runs, or None
  visited,   \* HierarchyLister: the directories it has returned
  emitted,   \* the entries of this listing so far
  phase,     \* of the client: "idle", "listing", "ended"
  walked,    \* history: the paths that earlier listings of the walk returned
  held,      \* history: the keys owed and there ever since the listing began
  kept,      \* history: the keys owed and there ever since the walk began
  seen       \* history: what was true of a key at some time of the listing

stores == <<data, meta>>
client == <<args, lister, scan, visited, emitted, phase, walked>>
history == <<held, kept, seen>>
vars == <<stores, client, history>>
---------------------------------------------------------------------------
(* scan_page, a readonly transaction: a step for each round of its loop, in *)
(* which no transaction of others can commit.                              *)

\* The first keys of a range, and how many there were before those that are
\* no strings were dropped.  These (binary, arrays) sort after all strings.
get_all_string_keys_in(lower, lower_open, upper, limit) ==
  LET strings == {k \in data : InRange(k, lower, lower_open, upper)}
      others  == IF upper = None THEN Foreign ELSE 0
      nth(i)  == CHOOSE k \in strings :
                   Cardinality({o \in strings : idb_less(o, k)}) = i - 1
  IN  [keys        |-> [i \in 1..Min({limit, Cardinality(strings)}) |-> nth(i)],
       fetched_len |-> Min({limit, Cardinality(strings) + others})]

\* What a listing says about a key: its sidecar, a directory marker without
\* one, or a value that was measured.
entry_info_for_key(k, sidecars) ==
  IF k \in sidecars THEN "sidecar"
  ELSE IF ends_with_slash(k) THEN "marker" ELSE "measured"

\* Mutant: the marker of the listed directory is one of its entries.
PassedOverNoMarker(req, k) == req.start_after # None /\ str_leq(k, req.start_after)

\* Keys that a page passes over: up to start_after, and the marker of the
\* listed directory itself.
PassedOver(req, k) ==
  \/ req.start_after # None /\ str_leq(k, req.start_after)
  \/ k = req.prefix /\ ends_with_slash(k)

\* Keys under the directory at which a non-recursive listing resumes.
Skipped(req, k) == req.skip_prefix # None /\ starts_with(k, req.skip_prefix)

\* `break 'scan`.
Break(s) == [s EXCEPT !.fetched = <<>>, !.over = TRUE]

\* The loop 'scan fetches as many keys as the page lacks.
Fetch(req, s) ==
  LET upper     == prefix_upper_bound(req.prefix)
      remaining == req.limit - Len(s.keys)
      batch     == get_all_string_keys_in(s.lower, s.lower_open, upper, remaining)
  IN  IF \/ upper # None /\ str_leq(upper, s.lower)
         \/ batch.keys = <<>>
      THEN Break(s)
      ELSE [s EXCEPT !.fetched = batch.keys, !.short = batch.fetched_len < remaining]

\* Behind the key at hand; behind the last one of a short batch it ends.
Behind(s) ==
  LET key == Head(s.fetched)
  IN  [s EXCEPT !.fetched = Tail(@), !.over = s.short /\ Tail(s.fetched) = <<>>,
                !.next_start_after = key, !.lower = key, !.lower_open = TRUE]

Keep(req, s) ==
  LET t == [Behind(s) EXCEPT !.keys = Append(@, Head(s.fetched))]
  IN  IF Len(t.keys) >= req.limit THEN Break(t) ELSE t

\* On behind the directory to be skipped, if that is further on.
Skip(req, s) ==
  LET next_lower == prefix_upper_bound(req.skip_prefix)
      t          == [s EXCEPT !.next_start_after = Head(s.fetched)]
  IN  IF next_lower = None \/ str_leq(next_lower, s.lower) THEN Break(t)
      ELSE [t EXCEPT !.fetched = <<>>, !.lower = next_lower, !.lower_open = FALSE]

\* The locals of the loop when it begins.
ScanOf(req) ==
  LET resumes == req.start_after # None /\ str_leq(req.prefix, req.start_after)
  IN  [keys |-> <<>>, next_start_after |-> req.start_after,
       lower |-> IF resumes THEN req.start_after ELSE req.prefix,
       lower_open |-> resumes, fetched |-> <<>>, short |-> FALSE, over |-> req.limit = 0]

\* The page: what was scanned, with the metadata of each key.
PageOf(req, scanned) ==
  [entries |-> [i \in DOMAIN scanned.keys |->
                  [path |-> scanned.keys[i],
                   info |-> entry_info_for_key(scanned.keys[i], meta)]],
   next_start_after |-> scanned.next_start_after,
   done |-> req.limit = 0 \/ Len(scanned.keys) < req.limit]
---------------------------------------------------------------------------
(* The client.                                                             *)

list_page_size(limit) ==
  IF limit = None THEN DefaultPage
  ELSE Min({(Max({limit, 1}) * PageFactor) % UsizeMod, DefaultPage})

\* Mutant: a recursive listing that resumes at a marker skips what is under it.
NewListerSkipping(request) ==
  [prefix      |-> request.prefix,
   start_after |-> request.start_after,
   skip_prefix |-> IF /\ request.start_after # None
                      /\ ends_with_slash(request.start_after)
                   THEN request.start_after ELSE None,
   limit       |-> list_page_size(request.limit),
   buffer      |-> <<>>,
   done        |-> FALSE]

\* Mutant: a directory that was returned is entered again.
NewListerRefolding(request) ==
  [NewListerSkipping(request) EXCEPT !.skip_prefix = None]

\* IndexeddbBackend::list.
NewLister(request) ==
  [prefix      |-> request.prefix,
   start_after |-> request.start_after,
   skip_prefix |-> IF /\ ~request.recursive
                      /\ request.start_after # None
                      /\ ends_with_slash(request.start_after)
                   THEN request.start_after ELSE None,
   limit       |-> list_page_size(request.limit),
   buffer      |-> <<>>,
   done        |-> FALSE]

Infos(keys, sidecars) == {[path |-> k, info |-> entry_info_for_key(k, sidecars)] : k \in keys}

\* HierarchyLister: the path itself, up to its first slash after the prefix.
Folded(path, prefix) ==
  LET slashes == {i \in DOMAIN path : i > Len(prefix) /\ path[i] = Slash}
  IN  IF slashes = {} THEN path ELSE SubSeq(path, 1, Min(slashes))

\* The path under which a listing returns a key.
Shown(request, k) == IF request.recursive THEN k ELSE Folded(k, request.prefix)

\* What a listing owes: the keys under its prefix, without the marker of the
\* listed directory, that it shows behind start_after in IndexedDB's order.
Owed(request, keys) ==
  {k \in keys :
     /\ starts_with(k, request.prefix)
     /\ ~(k = request.prefix /\ ends_with_slash(k))
     /\ request.start_after # None => idb_less(request.start_after, Shown(request, k))}

Begin(request) ==
  /\ phase' = "listing"
  /\ args' = request
  /\ lister' = NewLister(request) /\ scan' = None
  /\ visited' = {}
  /\ emitted' = <<>>
  /\ held' = Owed(request, data)
  /\ seen' = Infos(data, meta)
  /\ UNCHANGED stores

List(request) ==
  /\ phase = "idle"
  /\ Begin(request)
  /\ kept' = Owed(request, data)
  /\ UNCHANGED walked

\* The walk goes on after the last entry of a listing.
ListMore ==
  /\ phase = "ended" /\ emitted # <<>>
  /\ Begin([args EXCEPT !.start_after = Last(emitted).path])
  /\ walked' = walked \o [i \in DOMAIN emitted |-> emitted[i].path]
  /\ UNCHANGED kept

\* Mutant: one entry too many.
BelowLimitInclusive == args.limit # None => Len(emitted) <= args.limit

BelowLimit == args.limit # None => Len(emitted) < args.limit

\* IndexeddbLister::next with an empty buffer fetches the next page.
OpenScan ==
  /\ phase = "listing" /\ BelowLimit
  /\ lister.buffer = <<>> /\ ~lister.done /\ scan = None
  /\ scan' = ScanOf(lister)
  /\ UNCHANGED <<stores, args, lister, visited, emitted, phase, walked, history>>

FetchKeys ==
  /\ scan # None /\ scan.fetched = <<>> /\ ~scan.over
  /\ scan' = Fetch(lister, scan)
  /\ UNCHANGED <<stores, args, lister, visited, emitted, phase, walked, history>>

ScanKey ==
  /\ scan # None /\ scan.fetched # <<>>
  /\ LET key == Head(scan.fetched)
     IN  scan' = IF ~starts_with(key, lister.prefix) THEN Break(scan)
                 ELSE IF PassedOver(lister, key) THEN Behind(scan)
                 ELSE IF Skipped(lister, key) THEN Skip(lister, scan)
                 ELSE Keep(lister, scan)
  /\ UNCHANGED <<stores, args, lister, visited, emitted, phase, walked, history>>

\* Mutant: the page's next_start_after is not taken over.
FetchPageAgain ==
  /\ scan # None /\ scan.over
  /\ LET page == PageOf(lister, scan)
     IN  lister' = [lister EXCEPT !.buffer = page.entries, !.done = page.done]
  /\ scan' = None
  /\ UNCHANGED <<stores, args, visited, emitted, phase, walked, history>>

\* The transaction ends with the page.
FetchPage ==
  /\ scan # None /\ scan.over
  /\ LET page == PageOf(lister, scan)
     IN  lister' = [lister EXCEPT !.buffer = page.entries, !.done = page.done,
                                  !.start_after = page.next_start_after]
  /\ scan' = None
  /\ UNCHANGED <<stores, args, visited, emitted, phase, walked, history>>

\* IndexeddbLister::next pops the buffer; HierarchyLister keeps or drops.
Emit ==
  LET entry  == Head(lister.buffer)
      path   == Shown(args, entry.path)
      folded == path # entry.path
  IN  /\ phase = "listing" /\ BelowLimit
      /\ lister.buffer # <<>>
      /\ lister' = [lister EXCEPT !.buffer = Tail(@)]
      /\ IF path \in visited THEN UNCHANGED <<emitted, visited>>
         ELSE /\ emitted' = Append(emitted, IF folded THEN [path |-> path, info |-> "folded"]
                                                     ELSE entry)
              /\ visited' = IF ~args.recursive /\ ends_with_slash(path)
                            THEN visited \cup {path} ELSE visited
      /\ UNCHANGED <<stores, args, scan, phase, walked, history>>

\* The lister answers None: at the limit, or when the last page is used up.
End ==
  /\ phase = "listing"
  /\ BelowLimit => lister.buffer = <<>> /\ lister.done
  /\ phase' = "ended"
  /\ UNCHANGED <<stores, args, lister, scan, visited, emitted, walked, history>>
---------------------------------------------------------------------------
(* The others, between two pages.  Each transaction changes both stores.   *)

Becomes(keys, sidecars) ==
  /\ scan = None
  /\ data' = keys
  /\ meta' = sidecars
  /\ held' = held \cap keys
  /\ kept' = kept \cap keys
  /\ seen' = seen \cup Infos(keys, sidecars)
  /\ phase # "ended" \/ emitted # <<>>
  /\ UNCHANGED client

Write(k) == Becomes(data \cup {k}, meta \cup {k})

Delete(k) == Becomes(data \ {k}, meta \ {k})

DeleteRecursive(p) == Becomes(delete_recursive(data, data, p), delete_recursive(data, meta, p))

Rename(from, to) ==
  /\ from \in data
  /\ Becomes((data \ {from}) \cup {to}, (meta \ {from}) \cup {to})

\* A tab of a release without the sidecar, which leaves orphans behind.
LegacyWrite(k) == k \notin meta /\ Becomes(data \cup {k}, meta)
LegacyDelete(k) == Becomes(data \ {k}, meta)

Others ==
  \E k \in Busy :
    \/ Write(k) \/ Delete(k) \/ DeleteRecursive(k)
    \/ LegacyWrite(k) \/ LegacyDelete(k)
    \/ \E to \in Busy \ {k} : Rename(k, to)
---------------------------------------------------------------------------
NoRequest == [prefix |-> <<>>, recursive |-> FALSE, limit |-> None, start_after |-> None]

Init ==
  /\ data \in Populations
  /\ meta \in Sidecars
  /\ args = NoRequest /\ lister = NewLister(NoRequest) /\ scan = None
  /\ visited = {} /\ emitted = <<>> /\ phase = "idle" /\ walked = <<>>
  /\ held = {} /\ kept = {} /\ seen = {}

Walker == (\E r \in Requests : List(r)) \/ ListMore \/ OpenScan \/ FetchKeys \/ ScanKey \/ FetchPage \/ Emit \/ End

Next == Walker \/ Others

Spec == Init /\ [][Next]_vars

\* WF_client(Walker), in a form for which TLC need not compute ENABLED: the
\* walker can go on until it has seen an empty listing, and its steps are those
\* that change `client`.
Ended == phase = "ended" /\ emitted = <<>>
WalkerFairness == []<>Ended \/ []<><<TRUE>>_client
FairSpec == Spec /\ WalkerFairness
---------------------------------------------------------------------------
(* Properties.                                                             *)

Paths(entries) == [i \in DOMAIN entries |-> entries[i].path]

Entry == [path : Key, info : {"sidecar", "marker", "measured", "folded"}]
Lister == [prefix : Key, start_after : Key \cup {None}, skip_prefix : Key \cup {None}, limit : Nat,
           buffer : Seq(Entry), done : BOOLEAN]

\* Every variable has its type, and more: a buffered entry is a key under the
\* prefix, no page and no listing is longer than its limit.
TypeOK ==
  /\ data \subseteq Names /\ meta \subseteq Names
  /\ held \subseteq Names /\ kept \subseteq Names /\ seen \subseteq Entry
  /\ phase \in {"idle", "listing", "ended"}
  /\ args \in Request /\ lister \in Lister /\ scan \in Loop \cup {None}
  /\ emitted \in Seq(Entry) /\ walked \in Seq(Key)
  /\ \A e \in ToSet(lister.buffer) : e.path \in Names /\ starts_with(e.path, lister.prefix)
  /\ Len(lister.buffer) <= lister.limit
  /\ args.limit # None => Len(emitted) <= args.limit
  /\ visited \subseteq ToSet(Paths(emitted))

\* The documented start_after of a listing is one of its entries, or a path
\* between them: not the listed directory, nor a directory that this one is in.
ResumesAtItself(r) ==
  /\ ~r.recursive /\ r.start_after # None
  /\ ends_with_slash(r.start_after) /\ starts_with(r.prefix, r.start_after)

\* A listing that stops short of its limit has returned every entry that was
\* there all the time, is under the prefix and sorts after start_after, for
\* any page size and whatever else was written between its pages.
ListComplete ==
  phase = "ended" /\ (args.limit = None \/ Len(emitted) < args.limit) =>
    \A k \in held : Shown(args, k) \in ToSet(Paths(emitted))

\* A walk that stops at an empty listing has returned every entry behind its
\* beginning that was there all the time: none falls between two listings, at
\* a limit in the middle of a page or of a folded directory.
WalkComplete ==
  Ended =>
    \A k \in kept : Shown(args, k) \in ToSet(walked)

\* A walk returns its entries in IndexedDB's order, so none of them twice,
\* across pages and listings and although keys come and go in between.
WalkInOrder ==
  LET all == walked \o Paths(emitted)
  IN  \A i, j \in DOMAIN all : i < j => idb_less(all[i], all[j])

\* What a listing returns was so at some time while it ran: an entry had that
\* metadata, a folded directory had a child; nothing else is under another
\* prefix, and neither an orphaned sidecar nor a child of a folded directory
\* is returned.
ListSound ==
  \A e \in ToSet(emitted) :
    /\ starts_with(e.path, args.prefix)
    /\ e.path = args.prefix => ~ends_with_slash(e.path)
    /\ IF e.info = "folded"
       THEN \E s \in seen : starts_with(s.path, e.path) /\ s.path # e.path
       ELSE e \in seen /\ e.path = Shown(args, e.path)

\* However busy the others are, the walk comes to its end.
WalkEnds == <>Ended
=============================================================================

----------------------------- MODULE S3Listing -----------------------------
(***************************************************************************)
(* The paged listings of objstrd/src/adapter.rs: list_objects_v2,          *)
(* list_objects, list_object_versions and list_buckets.  A client walks    *)
(* through the pages while other clients add and remove keys.              *)
(*                                                                         *)
(* A key is a sequence of symbols in byte order; Slash is the delimiter    *)
(* and DirMark the component that obj_key appends to a key that ends in    *)
(* Slash, because the path type of the store drops a trailing one.         *)
(***************************************************************************)
EXTENDS Integers, Sequences, FiniteSets, SequencesExt

CONSTANTS
    Universe,   \* the keys that clients may store
    AskedPrefixes,   \* the prefixes they ask for
    PageSizes,  \* the max-keys they ask for
    Escaped     \* the symbols that url_encode escapes

Slash == 1
DirMark == 99

\* Keys are not empty, and DirMark is no symbol of one.
ASSUME ListingAssumption ==
    /\ Universe \subseteq Seq(1..(DirMark - 1)) \ {<<>>} /\ IsFiniteSet(Universe)
    /\ AskedPrefixes \subseteq Seq(1..(DirMark - 1)) /\ PageSizes \subseteq Nat
    /\ Escaped \subseteq 2..(DirMark - 1)

VARIABLES
    keys,       \* the keys of the bucket
    walk        \* the client's walk through the pages

listingVars == <<keys, walk>>

Apis == {"v2", "v1", "versions", "buckets"}
NoToken == <<>>
NoWalk == [api |-> "none", done |-> FALSE]

----------------------------------------------------------------------------
(* Keys and paths.                                                         *)

\* Byte order of two keys.
Before(a, b) ==
    \/ IsStrictPrefix(a, b)
    \/ \E i \in 1..Len(b) :
        /\ i <= Len(a)
        /\ SubSeq(a, 1, i - 1) = SubSeq(b, 1, i - 1)
        /\ a[i] < b[i]

EndsInSlash(k) == k # <<>> /\ Last(k) = Slash

\* obj_key: the path under which a key is stored.
ObjKey(k) == IF EndsInSlash(k) THEN Append(k, DirMark) ELSE k

\* The key of a stored path: a trailing DirMark component is dropped.
KeyOf(p) == IF Last(p) = DirMark THEN Front(p) ELSE p

\* Path::prefix_matches: the path starts with all components of the prefix.
PrefixMatches(p, prefix) ==
    LET dir == IF EndsInSlash(prefix) THEN Front(prefix) ELSE prefix IN
    dir = <<>> \/ p = dir \/ IsPrefix(Append(dir, Slash), p)

\* list_with_meta below a prefix, as keys.
ListWithMeta(prefix) ==
    {KeyOf(p) : p \in {q \in {ObjKey(k) : k \in keys} : PrefixMatches(q, prefix)}}

\* The prefix up to its last slash: listing there finds all keys that start
\* with the prefix.
DirPrefix(prefix) ==
    LET slashes == {i \in DOMAIN prefix : prefix[i] = Slash} IN
    IF slashes = {} THEN <<>>
    ELSE SubSeq(prefix, 1, CHOOSE i \in slashes : \A j \in slashes : j <= i)

\* The keys of a set in their order: before the i-th there are i - 1 others.
Sorted(S) == [i \in 1..Cardinality(S) |-> CHOOSE k \in S : Cardinality({j \in S : Before(j, k)}) = i - 1]

\* Mutant of After: the page starts with the token again (< for <=).
AfterOrAt(token, k) == token = NoToken \/ ~ Before(k, token)

\* continuation_token, start_after and key_marker are exclusive.
After(token, k) == token = NoToken \/ Before(token, k)

----------------------------------------------------------------------------
(* One page.                                                               *)

\* The keys that list_objects_v2 looks at.
Candidates(prefix, token) ==
    {k \in ListWithMeta(DirPrefix(prefix)) : IsPrefix(prefix, k) /\ After(token, k)}

\* The common prefix of a key: everything up to the first delimiter behind
\* the prefix.
HasGroup(prefix, k) == \E i \in (Len(prefix) + 1)..Len(k) : k[i] = Slash
Group(prefix, k) ==
    SubSeq(k, 1, CHOOSE i \in (Len(prefix) + 1)..Len(k) :
                    k[i] = Slash /\ \A j \in (Len(prefix) + 1)..(i - 1) : k[j] # Slash)

Groups(prefix, token) ==
    {g \in {Group(prefix, k) : k \in {c \in Candidates(prefix, token) : HasGroup(prefix, c)}} :
        After(token, g)}

\* What a listing can return, objects and common prefixes merged in order.
Entries(prefix, delim, token) ==
    IF delim
    THEN {k \in Candidates(prefix, token) : ~ HasGroup(prefix, k)} \cup Groups(prefix, token)
    ELSE Candidates(prefix, token)

\* A page of list_objects_v2: at most max entries; the next token is the last
\* key or prefix returned.
ListObjectsV2(prefix, delim, max, token) ==
    LET all == Sorted(Entries(prefix, delim, token))
        n   == IF Len(all) < max THEN Len(all) ELSE max
    IN  [got |-> SubSeq(all, 1, n),
         truncated |-> max > 0 /\ n < Len(all),
         next |-> IF max > 0 /\ n < Len(all) THEN all[n] ELSE NoToken]

\* url_encode: an escaped symbol turns into %XX, which sorts below every
\* symbol that stands for itself; two escaped ones keep their order.
UrlEncode(k) == [i \in DOMAIN k |-> IF k[i] \in Escaped THEN k[i] - DirMark ELSE k[i]]

\* The greater of the last object and the last common prefix, compared as
\* they stand in the answer.
NextMarker(prefix, got, enc) ==
    LET objs == {i \in DOMAIN got : ~ HasGroup(prefix, got[i])}
        pfxs == {i \in DOMAIN got : HasGroup(prefix, got[i])}
        obj  == got[Max(objs)]
        pfx  == got[Max(pfxs)]
        shown(k) == IF enc THEN UrlEncode(k) ELSE k
    IN  IF pfxs = {} THEN obj
        ELSE IF objs = {} THEN pfx
        ELSE IF Before(shown(pfx), shown(obj)) THEN obj ELSE pfx

\* list_objects answers with NextMarker only when there is a delimiter; the
\* client goes on from the last key otherwise.  It decodes what it gets.
ListObjects(prefix, delim, max, token, enc) ==
    LET page == ListObjectsV2(prefix, delim, max, token) IN
    IF ~ page.truncated THEN page
    ELSE [page EXCEPT !.next = IF delim THEN NextMarker(prefix, page.got, enc)
                                        ELSE Last(page.got)]

\* list_object_versions and list_buckets: no delimiter, and a page size of 0
\* is truncated without a next key.
PageOf(all, max) ==
    LET n == IF Len(all) < max THEN Len(all) ELSE max
    IN  [got |-> SubSeq(all, 1, n),
         truncated |-> n < Len(all),
         next |-> IF 0 < n /\ n < Len(all) THEN all[n] ELSE NoToken]

\* list_object_versions lists below the whole prefix, not its directory.
ListObjectVersions(prefix, max, token) ==
    PageOf(Sorted({k \in ListWithMeta(prefix) : IsPrefix(prefix, k) /\ After(token, k)}), max)

ListBuckets(max, token) ==
    PageOf(Sorted({k \in keys : After(token, k)}), max)

Page(w) ==
    CASE w.api = "v2" -> ListObjectsV2(w.prefix, w.delim, w.max, w.token)
      [] w.api = "v1" -> ListObjects(w.prefix, w.delim, w.max, w.token, w.enc)
      [] w.api = "versions" -> ListObjectVersions(w.prefix, w.max, w.token)
      [] w.api = "buckets" -> ListBuckets(w.max, w.token)

----------------------------------------------------------------------------
ListingInit ==
    /\ keys \in SUBSET Universe
    /\ walk = NoWalk

\* A client asks for its first page, with encoding-type=url or without.
StartWalk(api, prefix, delim, max, enc) ==
    /\ walk = NoWalk
    /\ delim \/ enc => api \in {"v1", "v2"}
    /\ api = "buckets" => prefix = <<>>
    /\ walk' = [api |-> api, prefix |-> prefix, delim |-> delim, max |-> max, enc |-> enc,
                token |-> NoToken, got |-> <<>>, done |-> FALSE, steady |-> keys]
    /\ UNCHANGED keys

\* The client fetches a page, and goes on while the answer is truncated and
\* names where to go on.
FetchPage ==
    /\ walk # NoWalk /\ ~ walk.done
    /\ LET page == Page(walk) IN
        walk' = [walk EXCEPT !.got = @ \o page.got,
                             !.token = page.next,
                             !.done = ~ page.truncated \/ page.next = NoToken]
    /\ UNCHANGED keys

\* Other clients change the bucket between two pages.
ChangeKeys(k) ==
    /\ ~ walk.done
    /\ keys' = IF k \in keys THEN keys \ {k} ELSE keys \cup {k}
    /\ walk' = IF walk = NoWalk THEN walk ELSE [walk EXCEPT !.steady = @ \ {k}]

ListingNext ==
    \/ \E api \in Apis, prefix \in AskedPrefixes, delim, enc \in BOOLEAN, max \in PageSizes :
            StartWalk(api, prefix, delim, max, enc)
    \/ FetchPage
    \/ \E k \in Universe : ChangeKeys(k)

ListingSpec == ListingInit /\ [][ListingNext]_listingVars

----------------------------------------------------------------------------
\* What the listing entry of key k is for this walk.
EntryFor(w, k) == IF w.delim /\ HasGroup(w.prefix, k) THEN Group(w.prefix, k) ELSE k

\* The keys that a walk asked for and that were there from its first page to
\* its last.
Wanted(w) == {k \in w.steady : IsPrefix(w.prefix, k)}

\* list_object_versions lists below the prefix as a path, so a prefix that
\* ends inside a name finds none of the keys that go on with that name: what
\* list_objects_v2 avoids by listing the directory of the prefix.
MissedByVersions(w, k) == w.api = "versions" /\ ~ PrefixMatches(ObjKey(k), w.prefix)

\* list_objects with a delimiter and encoding-type=url compares encoded
\* strings, so its NextMarker may lie before the last entry of the page.
MarkerFallsBack(w) == w.api = "v1" /\ w.delim /\ w.enc

\* A walk through the pages repeats no entry and never goes back in the
\* order, whatever is added and removed between two pages (token, start-after
\* and marker are exclusive, a common prefix is not emitted again); and to the
\* last page it reports every key that was there all the time, itself or by
\* its common prefix, although each page is computed anew.  Two listings do
\* less: list_object_versions misses the keys of MissedByVersions, and the
\* pages of list_objects overlap, without a gap, where MarkerFallsBack.
WalkIsExact ==
    walk # NoWalk =>
        /\ \/ MarkerFallsBack(walk)
           \/ \A i \in 1..(Len(walk.got) - 1) : Before(walk.got[i], walk.got[i + 1])
        /\ walk.done /\ walk.max > 0 =>
              \A k \in Wanted(walk) :
                  MissedByVersions(walk, k) \/ Contains(walk.got, EntryFor(walk, k))
============================================================================

------------------------------ MODULE InfoCache ------------------------------
(***************************************************************************)
(* CCache with its items CInfoBlock (cache.h, cache.cpp): what a closed    *)
(* connection leaves to the next one with the same host.  A list of items, *)
(* the last updated first, and a table of buckets whose chains point into  *)
(* it.  Each method holds m_Lock.                                          *)
(*                                                                         *)
(* An address is its version and two words: the second stands for the last *)
(* of the four, which clone() does not copy and new leaves uninitialized,  *)
(* so that the copy of an IPv6 address may hold anything there.            *)
(***************************************************************************)
EXTENDS Integers, Sequences, SequencesExt

CONSTANTS Hosts,       \* the addresses: records with fields ver, word, rest
          Words,       \* what an uninitialized word may hold
          MaxSize      \* m_iMaxSize; the hash table has three times as many buckets

VARIABLES items,     \* m_StorageList: records with an identity, address and info
          chains,    \* m_vHashPtr: the identities in each bucket
          latest,    \* what was last stored for each host, 0 for nothing
          astray     \* an overflow has put a chain in another's place

\* convert() leaves zeroes behind the first word of an IPv4 address.
ASSUME InfoCacheAssumption ==
    /\ Hosts \subseteq [ver : {4, 6}, word : Int, rest : Int]
    /\ \A h \in Hosts : h.ver = 4 => h.rest = 0
    /\ Words \subseteq Int
    /\ MaxSize \in Nat \ {0, 1}

cacheVars == <<items, chains, latest, astray>>

HashTableSize == 3 * MaxSize
Infos == 1 .. 2
NotKept == 0

CacheInit ==
    /\ items = <<>>
    /\ chains = [b \in 0 .. (HashTableSize - 1) |-> <<>>]
    /\ latest = [h \in Hosts |-> NotKept]
    /\ astray = FALSE

\* getKey: the signed first word, or the sum of the words.
GetKey(a) == IF a.ver = 4 THEN a.word ELSE a.word + a.rest
Bucket(a) == GetKey(a) % HashTableSize

\* Variant: the versions are not compared.
SameWord(a, b) == a.word = b.word
\* operator==.
SameHost(a, b) == a.ver = b.ver /\ a.word = b.word /\ (a.ver = 4 \/ a.rest = b.rest)

Item(list, id) == list[CHOOSE i \in DOMAIN list : list[i].id = id]

\* Where in a chain the items of a host are; the loops take the first.
Matches(list, chain, h) == {i \in DOMAIN chain : SameHost(Item(list, chain[i]).host, h)}
FirstOf(S) == CHOOSE i \in S : \A j \in S : i <= j

\* In update and lookup: the host has an item, and where its chain has it.
InChain(h) == Matches(items, chains[Bucket(h)], h) # {}
Place(h) == FirstOf(Matches(items, chains[Bucket(h)], h))

\* lookup, the answer.  A negative key is never found.
Looked(h) ==
    IF GetKey(h) < 0 \/ ~InChain(h) THEN NotKept
    ELSE Item(items, chains[Bucket(h)][Place(h)]).info

\* An identity no item has.
FreshId == CHOOSE n \in 1 .. (MaxSize + 1) : \A i \in DOMAIN items : items[i].id # n

-----------------------------------------------------------------------------

\* update of a host that is there: its item goes to the front of both.
Renew(h, info) ==
    LET id   == chains[Bucket(h)][Place(h)]
        item == Item(items, id)
    IN
    /\ GetKey(h) >= 0 /\ InChain(h)
    /\ items' = <<[item EXCEPT !.info = info]>> \o RemoveFirst(items, item)
    /\ chains' = [chains EXCEPT ![Bucket(h)] = <<id>> \o RemoveAt(@, Place(h))]
    /\ latest' = [latest EXCEPT ![h] = info]
    /\ UNCHANGED astray

\* A chain without the first item that is that host's.
Erased(list, chain, host) ==
    LET hits == Matches(list, chain, host)
    IN  IF hits = {} THEN chain ELSE RemoveAt(chain, FirstOf(hits))

\* update of a new host below the limit: a clone goes to the front of both.
Entered(h, info, rest) ==
    [id |-> FreshId, host |-> [h EXCEPT !.rest = rest], info |-> info]

Add(h, info, rest) ==
    LET new == Entered(h, info, rest) IN
    /\ GetKey(h) >= 0 /\ ~InChain(h) /\ Len(items) + 1 < MaxSize
    /\ h.ver = 4 => rest = h.rest
    /\ items' = <<new>> \o items
    /\ chains' = [chains EXCEPT ![Bucket(h)] = <<new.id>> \o @]
    /\ latest' = [latest EXCEPT ![h] = info]
    /\ UNCHANGED astray

\* At the limit the oldest item leaves the list too.  item_list being a
\* reference, its chain is copied over the new item's and it is erased from the
\* copy: unless they are one chain, the new item cannot be found any more and
\* the old chain is left with a pointer to freed memory.
Replace(h, info, rest) ==
    LET new  == Entered(h, info, rest)
        old  == Last(items)
        put  == [chains EXCEPT ![Bucket(h)] = <<new.id>> \o @]
        left == Erased(<<new>> \o items, put[Bucket(old.host)], old.host)
    IN  /\ GetKey(h) >= 0 /\ ~InChain(h) /\ Len(items) + 1 >= MaxSize
        /\ h.ver = 4 => rest = h.rest
        /\ items' = <<new>> \o Front(items)
        /\ chains' = [put EXCEPT ![Bucket(h)] = left]
        /\ latest' = [g \in Hosts |-> IF g = h THEN info
                                      ELSE IF g = old.host THEN NotKept ELSE latest[g]]
        /\ astray' = \/ Bucket(old.host) # Bucket(h)
                     \/ \E b \in DOMAIN chains : old.id \in ToSet(chains'[b])

\* close of a connection calls update; nothing is followed once a chain is astray.
CacheNext ==
    \E h \in Hosts, info \in Infos :
        ~astray /\ \/ Renew(h, info)
                   \/ \E rest \in Words : Add(h, info, rest) \/ Replace(h, info, rest)

CacheSpec == CacheInit /\ [][CacheNext]_cacheVars

-----------------------------------------------------------------------------

\* Until an overflow puts a chain in another's place, a new connection with an
\* IPv4 host whose key is not negative starts from what the last connection
\* with that very host left, if it is still kept, and never from another's.
HostInfoKept ==
    ~astray => \A h \in Hosts :
        h.ver = 4 => Looked(h) = IF GetKey(h) < 0 THEN NotKept ELSE latest[h]
=============================================================================

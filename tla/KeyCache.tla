------------------------------- MODULE KeyCache -------------------------------
(***************************************************************************)
(* The signer's BIP-32 xpub cache (src/src/signer.cpp, class signer).      *)
(*                                                                         *)
(* Several threads share one signer.  get_bip32_xpub searches the cache    *)
(* under m_mutex, releases it, derives what is missing, and re-takes the   *)
(* mutex inside cache_bip32_xpub for every insertion.  Each region that    *)
(* holds m_mutex is one atomic step here; the gaps between them are where  *)
(* other threads interleave.  A step that takes m_mutex is enabled only    *)
(* while nobody holds it (owner): std::mutex is not recursive, so a thread *)
(* that still held it would wait on itself.                                *)
(*                                                                         *)
(* Data abstraction: BIP-32 public derivation is deterministic, so the     *)
(* xpub of a path is identified with the path itself (XpubOf), and         *)
(* deriving a suffix from a parent xpub is concatenation (DerivePub).      *)
(* Hardened children cannot be derived from a public key (wally fails).    *)
(***************************************************************************)
EXTENDS Naturals, Sequences, SequencesExt, FiniteSets

CONSTANTS
    Threads,     \* threads sharing the signer
    Index,       \* child numbers that occur in paths
    Hardened,    \* the hardened ones (harden(n) in the code)
    Paths,       \* derivation paths callers request
    LoadPaths,   \* paths whose xpubs the session loads into the cache
    NoThread     \* owner of a free m_mutex

ASSUME Hardened \subseteq Index
ASSUME Paths \subseteq Seq(Index) /\ LoadPaths \subseteq Paths
ASSUME NoThread \notin Threads

VARIABLES
    masterKey,   \* m_master_key is set (signer built from a seed)
    cache,       \* m_cached_bip32_xpubs: path -> xpub
    pc,          \* where each thread is in get_bip32_xpub
    path,        \* argument of the current call
    local,       \* the call's locals parent_path, child_path, parent_key
    ret,         \* xpub returned by the last call
    outcome,     \* how the last call ended
    guarded,     \* has_bip32_xpub returned true just before this get
    owner        \* the thread holding m_mutex, or NoThread

vars == <<masterKey, cache, pc, path, local, ret, outcome, guarded, owner>>

Outcomes == {"none", "ok", "no_master_key", "cache_conflict", "derive_failed"}

XpubOf(p) == p

IsHardened(i) == i \in Hardened

\* derive(): bip32_key_from_parent_path_alloc with BIP32_FLAG_KEY_PUBLIC.
\* Public derivation of a hardened child fails.
DerivePub(k, s) == k \o s

DeriveFails(s) == \E i \in 1..Len(s) : IsHardened(s[i])

\* Mutant: child_path.push_back instead of insertion at the front.
RECURSIVE WalkAppend(_, _, _)
WalkAppend(c, pp, cp) ==
    IF pp \in DOMAIN c THEN [found |-> TRUE, parent |-> pp, child |-> cp]
    ELSE IF pp = <<>> \/ IsHardened(Last(pp))
         THEN [found |-> FALSE, parent |-> pp, child |-> cp]
         ELSE WalkAppend(c, Front(pp), cp \o <<Last(pp)>>)

\* The search loop of get_bip32_xpub: walk from the full path towards the
\* root until a cached prefix is found, the root is reached, or the last
\* element is hardened.  Elements popped are prepended to child_path.
RECURSIVE Walk(_, _, _)
Walk(c, pp, cp) ==
    IF pp \in DOMAIN c THEN [found |-> TRUE, parent |-> pp, child |-> cp]
    ELSE IF pp = <<>> \/ IsHardened(Last(pp))
         THEN [found |-> FALSE, parent |-> pp, child |-> cp]
         ELSE Walk(c, Front(pp), <<Last(pp)>> \o cp)

\* has_bip32_xpub: any path if there is a master key, else the same walk.
RECURSIVE HasWalk(_, _)
HasWalk(c, pp) ==
    IF pp \in DOMAIN c THEN TRUE
    ELSE IF pp = <<>> \/ IsHardened(Last(pp)) THEN FALSE
         ELSE HasWalk(c, Front(pp))

HasXpub(mk, c, p) == mk \/ HasWalk(c, p)

\* Mutant: assert that the path was not cached yet (ret.second).
CacheOkFresh(c, p, x) == p \notin DOMAIN c

\* cache_bip32_xpub: emplace, and assert that an existing entry matches.
CacheOk(c, p, x) == IF p \in DOMAIN c THEN c[p] = x ELSE TRUE

Emplace(c, p, x) == IF p \in DOMAIN c THEN c ELSE c @@ (p :> x)

\* Locals of a thread that is not inside get_bip32_xpub.
NoLocal == [parent |-> <<>>, child |-> <<>>, hasKey |-> FALSE, key |-> <<>>]

\* std::unique_lock<std::mutex> locker{ m_mutex }: blocks until m_mutex
\* is free, whoever holds it.
Free == owner = NoThread

\* get_bip32_xpub returns x (or throws, o # "ok"); its locals go out of
\* scope, a unique_lock among them releasing m_mutex.
Finish(t, x, o) ==
    /\ owner' = IF owner = t THEN NoThread ELSE owner
    /\ pc' = [pc EXCEPT ![t] = "done"]
    /\ ret' = [ret EXCEPT ![t] = x]
    /\ outcome' = [outcome EXCEPT ![t] = o]
    /\ local' = [local EXCEPT ![t] = NoLocal]

\* Mutant: the derived key is cached under child_path, not the full path.
InsertUnderChildPath(t, p, x) ==
    LET q == IF pc[t] = "child" THEN local[t].child ELSE p IN
    /\ Free
    /\ IF CacheOk(cache, q, x)
       THEN /\ cache' = Emplace(cache, q, x)
            /\ Finish(t, x, "ok")
       ELSE /\ UNCHANGED cache
            /\ Finish(t, <<>>, "cache_conflict")

\* A cache insertion made by thread t (cache_ext_key / cache_bip32_xpub),
\* followed by returning x; the assertion failure ends the call.
InsertThenFinish(t, p, x) ==
    /\ Free
    /\ IF CacheOk(cache, p, x)
       THEN /\ cache' = Emplace(cache, p, x)
            /\ Finish(t, x, "ok")
       ELSE /\ UNCHANGED cache
            /\ Finish(t, <<>>, "cache_conflict")

Fail(t, o) == /\ UNCHANGED cache
              /\ Finish(t, <<>>, o)

-----------------------------------------------------------------------------

\* signer::signer: m_master_key exists iff the credentials carry a seed.
Init ==
    /\ masterKey \in BOOLEAN
    /\ cache = [p \in {} |-> <<>>]
    /\ pc = [t \in Threads |-> "idle"]
    /\ path = [t \in Threads |-> <<>>]
    /\ local = [t \in Threads |-> NoLocal]
    /\ ret = [t \in Threads |-> <<>>]
    /\ outcome = [t \in Threads |-> "none"]
    /\ guarded = [t \in Threads |-> FALSE]
    /\ owner = NoThread

\* A thread enters get_bip32_xpub(p): parent_path = p, child_path empty.
\* Callers ask has_bip32_xpub(p) first (one step under m_mutex unless
\* there is a master key); guarded records its answer.
Call(t, p) ==
    /\ pc[t] \in {"idle", "done"}
    /\ masterKey \/ Free
    /\ pc' = [pc EXCEPT ![t] = "search"]
    /\ path' = [path EXCEPT ![t] = p]
    /\ local' = [local EXCEPT ![t] = [NoLocal EXCEPT !.parent = p]]
    /\ guarded' = [guarded EXCEPT ![t] = HasXpub(masterKey, cache, p)]
    /\ UNCHANGED <<masterKey, cache, ret, outcome, owner>>

\* Mutant: the unique_lock of the search lives to the end of the call.
SearchKeepsLock(t) ==
    LET w == Walk(cache, path[t], <<>>) IN
    /\ pc[t] = "search"
    /\ Free
    /\ IF w.found /\ w.child = <<>>
       THEN Finish(t, cache[w.parent], "ok")
       ELSE /\ local' = [local EXCEPT ![t] =
                   [parent |-> w.parent, child |-> w.child, hasKey |-> w.found,
                    key |-> IF w.found THEN cache[w.parent] ELSE <<>>]]
            /\ pc' = [pc EXCEPT ![t] =
                        IF path[t] = <<>> THEN "master"
                        ELSE IF w.parent # <<>> /\ ~w.found THEN "parent"
                        ELSE "child"]
            /\ owner' = t
            /\ UNCHANGED <<ret, outcome>>
    /\ UNCHANGED <<masterKey, cache, path, guarded>>

\* The search loop, under m_mutex.  A full hit returns the cached xpub; a
\* hit on a prefix loads parent_key.
Search(t) ==
    LET w == Walk(cache, path[t], <<>>) IN
    /\ pc[t] = "search"
    /\ Free
    /\ IF w.found /\ w.child = <<>>
       THEN Finish(t, cache[w.parent], "ok")
       ELSE /\ local' = [local EXCEPT ![t] =
                   [parent |-> w.parent, child |-> w.child, hasKey |-> w.found,
                    key |-> IF w.found THEN cache[w.parent] ELSE <<>>]]
            /\ pc' = [pc EXCEPT ![t] =
                        IF path[t] = <<>> THEN "master"
                        ELSE IF w.parent # <<>> /\ ~w.found THEN "parent"
                        ELSE "child"]
            /\ UNCHANGED <<ret, outcome, owner>>
    /\ UNCHANGED <<masterKey, cache, path, guarded>>

\* Master xpub requested and not cached: cache_ext_key({}, m_master_key).
MasterStep(t) ==
    /\ pc[t] = "master"
    /\ IF masterKey
       THEN InsertThenFinish(t, <<>>, XpubOf(<<>>))
       ELSE Fail(t, "no_master_key")
    /\ UNCHANGED <<masterKey, path, guarded>>

\* Mutant: the parent is derived only while no other thread has cached it.
ParentStepFresh(t) ==
    LET l == local[t]
        x == DerivePub(XpubOf(<<>>), l.parent)
    IN
    /\ pc[t] = "parent"
    /\ l.parent \notin DOMAIN cache
    /\ IF ~masterKey
       THEN Fail(t, "no_master_key")
       ELSE /\ Free
            /\ IF CacheOk(cache, l.parent, x)
               THEN /\ cache' = Emplace(cache, l.parent, x)
                    /\ local' = [local EXCEPT ![t].hasKey = TRUE, ![t].key = x]
                    /\ pc' = [pc EXCEPT ![t] = "child"]
                    /\ UNCHANGED <<ret, outcome, owner>>
               ELSE Fail(t, "cache_conflict")
    /\ UNCHANGED <<masterKey, path, guarded>>

\* Derive parent_path from m_master_key and encache it.
ParentStep(t) ==
    LET l == local[t]
        x == DerivePub(XpubOf(<<>>), l.parent)
    IN
    /\ pc[t] = "parent"
    /\ IF ~masterKey
       THEN Fail(t, "no_master_key")
       ELSE /\ Free
            /\ IF CacheOk(cache, l.parent, x)
               THEN /\ cache' = Emplace(cache, l.parent, x)
                    /\ local' = [local EXCEPT ![t].hasKey = TRUE, ![t].key = x]
                    /\ pc' = [pc EXCEPT ![t] = "child"]
                    /\ UNCHANGED <<ret, outcome, owner>>
               ELSE Fail(t, "cache_conflict")
    /\ UNCHANGED <<masterKey, path, guarded>>

\* root_key = parent_key or m_master_key; return it if there is no child
\* path, else derive the child path from it and encache it under the full
\* path.
ChildStep(t) ==
    LET l == local[t]
        root == IF l.hasKey THEN l.key ELSE XpubOf(<<>>)
    IN
    /\ pc[t] = "child"
    /\ IF ~l.hasKey /\ ~masterKey
       THEN Fail(t, "no_master_key")
       ELSE IF l.child = <<>>
       THEN /\ UNCHANGED cache
            /\ Finish(t, root, "ok")
       ELSE IF DeriveFails(l.child)
       THEN Fail(t, "derive_failed")
       ELSE InsertThenFinish(t, path[t], DerivePub(root, l.child))
    /\ UNCHANGED <<masterKey, path, guarded>>

\* The session loads a known xpub (load_signer_xpubs -> cache_bip32_xpub).
Encache(t, p) ==
    /\ pc[t] \in {"idle", "done"}
    /\ Free
    /\ CacheOk(cache, p, XpubOf(p))
    /\ cache' = Emplace(cache, p, XpubOf(p))
    /\ UNCHANGED <<masterKey, pc, path, local, ret, outcome, guarded, owner>>

Next ==
    \E t \in Threads :
        \/ \E p \in Paths : Call(t, p)
        \/ Search(t)
        \/ MasterStep(t)
        \/ ParentStep(t)
        \/ ChildStep(t)
        \/ \E p \in LoadPaths : Encache(t, p)

Spec == Init /\ [][Next]_vars

\* The steps of a call in progress.  None of them waits on anything but
\* m_mutex, which every holder releases at the end of its step, so a
\* scheduled thread that keeps wanting to run does run (weak fairness).
Progress(t) == Search(t) \/ MasterStep(t) \/ ParentStep(t) \/ ChildStep(t)

FairSpec == Spec /\ \A t \in Threads : WF_vars(Progress(t))

-----------------------------------------------------------------------------
(* Properties                                                              *)

TypeOK ==
    /\ masterKey \in BOOLEAN
    /\ DOMAIN cache \subseteq Paths
    /\ pc \in [Threads -> {"idle", "search", "master", "parent", "child", "done"}]
    /\ path \in [Threads -> Paths]
    /\ outcome \in [Threads -> Outcomes]
    /\ local \in [Threads -> [parent : Seq(Index), child : Seq(Index),
                              hasKey : BOOLEAN, key : Seq(Index)]]
    /\ guarded \in [Threads -> BOOLEAN]
    /\ owner \in Threads \cup {NoThread}

\* Every xpub in m_cached_bip32_xpubs, and every xpub get_bip32_xpub
\* returns, is the one derived for its path, whichever prefix the walk
\* found, whichever thread inserted it, and in whatever order.
XpubsCorrect ==
    /\ \A p \in DOMAIN cache : cache[p] = XpubOf(p)
    /\ \A t \in Threads :
          pc[t] = "done" /\ outcome[t] = "ok" => ret[t] = XpubOf(path[t])

\* get_bip32_xpub never fails when the key is derivable: on a signer with
\* a master key, or when the caller first saw has_bip32_xpub return true.
\* Concurrent searches, derivations and insertions of the same path by
\* other threads must not make it fail with a spurious cache conflict.
NoSpuriousFailure ==
    \A t \in Threads :
        pc[t] = "done" /\ (masterKey \/ guarded[t]) => outcome[t] = "ok"

\* Every get_bip32_xpub call returns or throws: no thread is left waiting
\* in the search, derivation or insertion, whatever the other threads
\* cache in between its steps.
CallReturns == \A t \in Threads : pc[t] \notin {"idle", "done"} ~> pc[t] = "done"

=============================================================================

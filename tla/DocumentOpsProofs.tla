--------------------------- MODULE DocumentOpsProofs ---------------------------
(***************************************************************************)
(* Theorems about DocumentOps.                                             *)
(***************************************************************************)
EXTENDS DocumentOps, TLAPS

-------------------------------------------------------------------------------
(* Paths. *)

(* A document's path is its parent's and one more name. *)
LEMMA ParentOf ==
    ASSUME NEW u \in Paths
    PROVE  /\ u \in Seq(Names)
           /\ Parent(u) \in Paths
           /\ u # <<>> => /\ Len(Parent(u)) = Len(u) - 1
                          /\ Parent(u) # u
                          /\ IsPrefix(Parent(u), u)
<1>1. u \in Seq(Names) /\ Len(u) \in Nat
  BY PathsAssumption
<1>2. CASE u = <<>>
  BY <1>1, <1>2 DEF Parent
<1>3. CASE u # <<>>
  <2>1. Len(u) # 0 /\ Len(u) - 1 \in 0..Len(u)
    BY <1>1, <1>3
  <2>2. Parent(u) = SubSeq(u, 1, Len(u) - 1)
    BY <1>3 DEF Parent, Front
  <2>3. Parent(u) \in Paths
    BY <2>1, <2>2, PathsAssumption
  <2>4. Len(Parent(u)) = Len(u) - 1 /\ \A i \in 1..Len(u) - 1 : Parent(u)[i] = u[i]
    <3> DEFINE n == Len(u) - 1
    <3>1. n \in 0..Len(u)
      BY <2>1
    <3> HIDE DEF n
    <3>2. Len(SubSeq(u, 1, n)) = n /\ \A i \in 1..n : SubSeq(u, 1, n)[i] = u[i]
      BY <1>1, <3>1
    <3> QED
      BY <2>2, <3>2 DEF n
  <2>5. IsPrefix(Parent(u), u)
    BY <1>1, <2>1, <2>2, <2>4 DEF IsPrefix
  <2> QED
    BY <1>1, <1>3, <2>1, <2>3, <2>4, <2>5
<1> QED
  BY <1>2, <1>3

(* To be above a document is to agree with it as far as one's own path     *)
(* goes.                                                                   *)
LEMMA PrefixByIndex ==
    ASSUME NEW u \in Paths, NEW v \in Paths
    PROVE  IsPrefix(u, v) <=> Len(u) <= Len(v) /\ \A i \in 1..Len(u) : u[i] = v[i]
<1>1. u \in Seq(Names) /\ v \in Seq(Names) /\ Len(u) \in Nat /\ Len(v) \in Nat
  BY PathsAssumption
<1>2. CASE Len(u) <= Len(v)
  <2>1. /\ SubSeq(u, 1, Len(u)) = [i \in 1..Len(u) |-> u[i]]
        /\ SubSeq(v, 1, Len(u)) = [i \in 1..Len(u) |-> v[i]]
    BY <1>1, <1>2
  <2> QED
    BY <1>2, <2>1 DEF IsPrefix
<1> QED
  BY <1>1, <1>2 DEF IsPrefix

(* Two paths are the same if they are as long and agree everywhere. *)
LEMMA SamePath ==
    ASSUME NEW u \in Paths, NEW v \in Paths, Len(u) = Len(v),
           \A i \in 1..Len(u) : u[i] = v[i]
    PROVE  u = v
<1>1. u \in Seq(Names) /\ v \in Seq(Names)
  BY PathsAssumption
<1>2. /\ u = [i \in 1..Len(u) |-> u[i]]
      /\ v = [i \in 1..Len(v) |-> v[i]]
  BY <1>1
<1> QED
  BY <1>2

(* "Above" is a partial order, ... *)
LEMMA PrefixOrder ==
    ASSUME NEW u \in Paths, NEW v \in Paths, NEW w \in Paths
    PROVE  /\ IsPrefix(u, u)
           /\ IsPrefix(u, v) /\ IsPrefix(v, w) => IsPrefix(u, w)
           /\ IsPrefix(u, v) /\ IsPrefix(v, u) => u = v
           /\ IsPrefix(u, w) /\ IsPrefix(v, w) /\ Len(u) <= Len(v) => IsPrefix(u, v)
<1>1. Len(u) \in Nat /\ Len(v) \in Nat /\ Len(w) \in Nat
  BY PathsAssumption
<1>2. IsPrefix(u, u)
  BY <1>1, PrefixByIndex
<1>3. IsPrefix(u, v) /\ IsPrefix(v, w) => IsPrefix(u, w)
  BY <1>1, PrefixByIndex
<1>4. IsPrefix(u, v) /\ IsPrefix(v, u) => u = v
  BY <1>1, PrefixByIndex, SamePath
<1>5. IsPrefix(u, w) /\ IsPrefix(v, w) /\ Len(u) <= Len(v) => IsPrefix(u, v)
  BY <1>1, PrefixByIndex
<1> QED
  BY <1>2, <1>3, <1>4, <1>5

(* ... in which a document's parent comes right above it. *)
LEMMA AboveParent ==
    ASSUME NEW u \in Paths, NEW v \in Paths, IsPrefix(u, v), u # v
    PROVE  v # <<>> /\ IsPrefix(u, Parent(v))
<1>1. Len(u) \in Nat /\ Len(v) \in Nat /\ u \in Seq(Names) /\ v \in Seq(Names)
  BY PathsAssumption
<1>2. Len(u) <= Len(v) /\ \A i \in 1..Len(u) : u[i] = v[i]
  BY PrefixByIndex
<1>3. Len(u) # Len(v)
  BY <1>2, SamePath
<1>4. v # <<>>
  BY <1>1, <1>2, <1>3
<1>5. /\ Parent(v) \in Paths
      /\ Len(Parent(v)) = Len(v) - 1
      /\ IsPrefix(Parent(v), v)
  BY <1>4, ParentOf
<1>6. Len(u) <= Len(Parent(v))
  BY <1>1, <1>2, <1>3, <1>5
<1> QED
  BY <1>4, <1>5, <1>6, PrefixOrder

(* What is moved lands below the target, as far down as it was, and the    *)
(* way back leads to where it came from.                                   *)
LEMMA MovedPath ==
    ASSUME NEW p \in Paths, NEW from \in Paths, NEW to \in Paths,
           NEW q \in Paths, IsPrefix(from, p), q = Moved(p, from, to)
    PROVE  /\ Len(q) = Len(to) + Len(p) - Len(from)
           /\ \A i \in 1..Len(to) : q[i] = to[i]
           /\ \A i \in 1..Len(p) - Len(from) : q[Len(to) + i] = p[Len(from) + i]
           /\ IsPrefix(to, q)
           /\ Moved(q, to, from) = p
<1> DEFINE tail == SubSeq(p, Len(from) + 1, Len(p))
<1>1. /\ p \in Seq(Names) /\ from \in Seq(Names) /\ to \in Seq(Names) /\ q \in Seq(Names)
      /\ Len(p) \in Nat /\ Len(from) \in Nat /\ Len(to) \in Nat /\ Len(q) \in Nat
  BY PathsAssumption
<1>2. Len(from) <= Len(p) /\ \A i \in 1..Len(from) : from[i] = p[i]
  BY PrefixByIndex
<1>3. /\ tail \in Seq(Names)
      /\ Len(tail) = Len(p) - Len(from)
      /\ \A i \in 1..Len(p) - Len(from) : tail[i] = p[Len(from) + i]
  <2>1. tail = [i \in 1..Len(p) - Len(from) |-> p[Len(from) + i]]
    BY <1>1, <1>2
  <2>2. \A i \in 1..Len(p) - Len(from) : p[Len(from) + i] \in Names
    BY <1>1, <1>2
  <2> QED
    BY <1>1, <1>2, <2>1, <2>2
<1> HIDE DEF tail
<1>4. q = to \o tail
  BY DEF Moved, tail
<1>5. /\ Len(q) = Len(to) + Len(tail)
      /\ \A i \in 1..Len(to) : q[i] = to[i]
      /\ \A i \in 1..Len(tail) : q[Len(to) + i] = tail[i]
  <2>1. Len(q) = Len(to) + Len(tail)
    <3>1. to \in Seq(Names) /\ tail \in Seq(Names)
      BY <1>1, <1>3
    <3>2. Len(to \o tail) = Len(to) + Len(tail)
      BY <3>1
    <3> QED
      BY <1>4, <3>2
  <2>2. \A i \in 1..Len(to) : q[i] = to[i]
    BY <1>1, <1>3, <1>4
  <2>3. ASSUME NEW i \in 1..Len(tail)
        PROVE  q[Len(to) + i] = tail[i]
    BY <1>1, <1>3, <1>4
  <2> QED
    BY <2>1, <2>2, <2>3
<1>6. IsPrefix(to, q)
  <2>1. Len(to) <= Len(q)
    BY <1>1, <1>3, <1>5
  <2> QED
    BY <1>5, <2>1, PrefixByIndex
<1> DEFINE back == SubSeq(q, Len(to) + 1, Len(q))
<1>7. back = tail
  <2>1. /\ back = [i \in 1..Len(q) - Len(to) |-> q[Len(to) + i]]
        /\ tail = [i \in 1..Len(tail) |-> tail[i]]
    BY <1>1, <1>3, <1>5
  <2>2. Len(q) - Len(to) = Len(tail)
    BY <1>1, <1>3, <1>5
  <2> QED
    BY <1>5, <2>1, <2>2
<1>8. from \o tail = p
  <2>1. /\ from \o tail \in Seq(Names)
        /\ Len(from \o tail) = Len(p)
        /\ \A i \in 1..Len(from) : (from \o tail)[i] = p[i]
        /\ \A i \in 1..Len(tail) : (from \o tail)[Len(from) + i] = p[Len(from) + i]
    BY <1>1, <1>2, <1>3
  <2>2. ASSUME NEW i \in 1..Len(p)
        PROVE  (from \o tail)[i] = p[i]
    <3>1. CASE i <= Len(from)
      BY <1>1, <2>1, <3>1
    <3>2. CASE ~(i <= Len(from))
      <4>1. i - Len(from) \in 1..Len(tail) /\ Len(from) + (i - Len(from)) = i
        BY <1>1, <1>2, <1>3, <3>2
      <4> QED
        BY <2>1, <4>1
    <3> QED
      BY <3>1, <3>2
  <2> DEFINE r == from \o tail
  <2> HIDE DEF r
  <2>3. r \in Seq(Names) /\ Len(r) = Len(p) /\ \A i \in 1..Len(p) : r[i] = p[i]
    BY <2>1, <2>2 DEF r
  <2>4. r = [i \in 1..Len(r) |-> r[i]] /\ p = [i \in 1..Len(p) |-> p[i]]
    BY <1>1, <2>3
  <2>5. r = p
    BY <2>3, <2>4
  <2> QED
    BY <2>5 DEF r
<1>9. Moved(q, to, from) = p
  BY <1>7, <1>8 DEF Moved
<1> QED
  BY <1>1, <1>3, <1>5, <1>6, <1>9

(* Moving keeps what lies above what: in both directions. *)
LEMMA MovedTree ==
    ASSUME NEW p \in Paths, NEW v \in Paths, NEW from \in Paths, NEW to \in Paths,
           NEW q \in Paths, NEW w \in Paths, IsPrefix(from, p), IsPrefix(from, v),
           q = Moved(p, from, to), w = Moved(v, from, to)
    PROVE  /\ IsPrefix(p, v) => IsPrefix(q, w)
           /\ q = w => p = v
<1>1. /\ Len(q) = Len(to) + Len(p) - Len(from)
      /\ \A i \in 1..Len(to) : q[i] = to[i]
      /\ \A i \in 1..Len(p) - Len(from) : q[Len(to) + i] = p[Len(from) + i]
      /\ Moved(q, to, from) = p
  <2>1. Len(q) = Len(to) + Len(p) - Len(from)
    BY MovedPath
  <2>2. \A i \in 1..Len(to) : q[i] = to[i]
    BY MovedPath
  <2>3. \A i \in 1..Len(p) - Len(from) : q[Len(to) + i] = p[Len(from) + i]
    BY MovedPath
  <2>4. Moved(q, to, from) = p
    BY MovedPath
  <2> QED
    BY <2>1, <2>2, <2>3, <2>4
<1>2. /\ Len(w) = Len(to) + Len(v) - Len(from)
      /\ \A i \in 1..Len(to) : w[i] = to[i]
      /\ \A i \in 1..Len(v) - Len(from) : w[Len(to) + i] = v[Len(from) + i]
      /\ Moved(w, to, from) = v
  <2>1. Len(w) = Len(to) + Len(v) - Len(from)
    BY MovedPath
  <2>2. \A i \in 1..Len(to) : w[i] = to[i]
    BY MovedPath
  <2>3. \A i \in 1..Len(v) - Len(from) : w[Len(to) + i] = v[Len(from) + i]
    BY MovedPath
  <2>4. Moved(w, to, from) = v
    BY MovedPath
  <2> QED
    BY <2>1, <2>2, <2>3, <2>4
<1>3. /\ Len(p) \in Nat /\ Len(v) \in Nat /\ Len(from) \in Nat /\ Len(to) \in Nat
      /\ Len(from) <= Len(p) /\ Len(from) <= Len(v)
  BY PathsAssumption, PrefixByIndex
<1>4. ASSUME IsPrefix(p, v)
      PROVE  IsPrefix(q, w)
  <2>1. Len(p) <= Len(v) /\ \A i \in 1..Len(p) : p[i] = v[i]
    BY <1>4, PrefixByIndex
  <2>2. Len(q) <= Len(w)
    BY <1>1, <1>2, <1>3, <2>1
  <2>3. ASSUME NEW i \in 1..Len(q)
        PROVE  q[i] = w[i]
    <3>1. CASE i <= Len(to)
      <4>1. i \in 1..Len(to)
        BY <1>1, <1>3, <3>1
      <4> QED
        BY <1>1, <1>2, <4>1
    <3>2. CASE ~(i <= Len(to))
      <4> DEFINE k == i - Len(to)
      <4>1. /\ k \in 1..Len(p) - Len(from) /\ k \in 1..Len(v) - Len(from)
            /\ Len(to) + k = i /\ Len(from) + k \in 1..Len(p)
        BY <1>1, <1>3, <2>1, <3>2
      <4> HIDE DEF k
      <4>2. q[Len(to) + k] = p[Len(from) + k] /\ w[Len(to) + k] = v[Len(from) + k]
        BY <1>1, <1>2, <4>1
      <4> QED
        BY <2>1, <4>1, <4>2
    <3> QED
      BY <3>1, <3>2
  <2> QED
    BY <2>2, <2>3, PrefixByIndex
<1>5. q = w => p = v
  BY <1>1, <1>2
<1> QED
  BY <1>4, <1>5

-------------------------------------------------------------------------------
(* The invariant. *)

(* A job on an object of the cache is a load; whoever talked to the server *)
(* knows a kind of document; a delete that goes on is in a folder.         *)
JobOK(j) ==
    /\ j.what = "none" => j.at = "idle"
    /\ j.on => j.what = "load"
    /\ j.what \in {"create", "query"} => j.kind # "none"

(* An entry that is not one of a document is no entry. *)
DocOK(d) == d.kind = "none" => ~d.listed /\ d.children = {}

(* What job j has heard from the server is still so, unless it is late.    *)
Heard(j, r) ==
    ~j.late =>
       /\ j.what \in {"create", "query"} /\ j.at = "done" => r[j.uri] # "none"
       /\ j.what = "rename" /\ j.at = "done" => r[j.uri] = "none" /\ r[j.to] # "none"
       /\ j.what = "delete" /\ j.at \in {"done", "notFound"} => r[j.to] = "none"
       /\ j.what = "load" /\ j.at \in {"read", "listed"} =>
             \A e \in j.got : e.uri \in Kids(j.uri) /\ r[e.uri] # "none"
       /\ j.what = "load" /\ j.at = "read" =>
             /\ r[j.uri] = "dir"
             /\ \A v \in Kids(j.uri) : r[v] # "none" => \E e \in j.got : e.uri = v

(* A load that is late has put the children of w into its metadata, and    *)
(* excuses w when it ends.                                                 *)
LateLoad(j, w) == j.what = "load" /\ j.at = "listed" /\ j.late /\ j.uri = w

(* Folder w may be gone from the server: j drops or excuses its listing.   *)
OwesFolder(j, w) ==
    \/ LateLoad(j, w)
    \/ j.at = "done" /\ j.what = "rename" /\ w \in Under(j.uri)
    \/ j.at = "done" /\ j.what = "delete" /\ w = j.to

(* Child v may be there on the server and not in w, or the other way       *)
(* round: j puts it into the listing, takes it out or excuses w.           *)
OwesChild(j, w, v) ==
    \/ OwesFolder(j, w)
    \/ j.at = "done" /\ j.what = "create" /\ ~j.existed /\ v = j.uri
    \/ j.at = "done" /\ j.what = "rename" /\ v \in {j.uri, j.to}
    \/ j.at = "done" /\ j.what = "delete" /\ v = j.to
    \/ j.what # "load" /\ j.at \in {"done", "notFound"} /\ j.late
          /\ w \in {Parent(j.uri), Parent(j.to)}

Shows(d, v) == \E e \in d.children : e.uri = v

(* The listing of w: what of it is not so is owed by a job.                *)
FolderThere(w) == remote[w] = "dir" \/ \E s \in Threads : OwesFolder(job[s], w)
OwnChildren(w) ==
    \/ \A v \in Paths : Shows(cache[w], v) => v \in Kids(w)
    \/ \E s \in Threads : LateLoad(job[s], w)
ChildRight(w, v) ==
    \/ Shows(cache[w], v) <=> remote[v] # "none"
    \/ \E s \in Threads : OwesChild(job[s], w, v)

Trusted(w) == cache[w].listed /\ w \notin excused

ListInv ==
    \A w \in Paths : Trusted(w) =>
        /\ FolderThere(w)
        /\ OwnChildren(w)
        /\ \A v \in Kids(w) : ChildRight(w, v)

TypeInv ==
    /\ TypeOK
    /\ \A t \in Threads : JobOK(job[t])
    /\ \A u \in Paths : DocOK(cache[u])

HeardInv == \A t \in Threads : Heard(job[t], remote)

OpsInv == TypeInv /\ HeardInv /\ ListInv

-------------------------------------------------------------------------------
(* Jobs. *)

(* What a change of the server or of the cache does to a job of somebody   *)
(* else: it may become late, or lose its object and some children with it. *)
Later(j, k) ==
    /\ k.what = j.what /\ k.at = j.at /\ k.uri = j.uri /\ k.to = j.to
    /\ k.kind = j.kind /\ k.existed = j.existed
    /\ j.late => k.late
    /\ k.on => j.on
    /\ k.got \subseteq j.got
    /\ j.at # "listed" => k.got = j.got

(* The jobs of the other threads still owe what they owed in folder w.     *)
StillOwes(t, w) ==
    \A s \in Threads \ {t} :
        /\ LateLoad(job[s], w) => LateLoad(job'[s], w)
        /\ OwesFolder(job[s], w) => OwesFolder(job'[s], w)
        /\ \A v \in Paths : OwesChild(job[s], w, v) => OwesChild(job'[s], w, v)

LEMMA NoJobFields ==
    /\ NoJob \in Jobs
    /\ NoJob.what = "none" /\ NoJob.at = "idle" /\ NoJob.on = FALSE /\ NoJob.late = FALSE
    /\ NoJob.folders = <<>>
<1>1. <<>> \in Paths /\ <<>> \in Seq(Frames)
  BY PathsAssumption
<1>2. NoJob \in Jobs
  BY <1>1 DEF NoJob, Jobs, Ats, Kinds
<1> QED
  BY <1>2 DEF NoJob

(* A job that begins. *)
LEMMA JobFields ==
    ASSUME NEW what \in {"create", "query", "rename", "delete", "load"},
           NEW at \in Ats, NEW u \in Paths,
           NEW j, j = Job(what, at, u)
    PROVE  /\ j \in Jobs
           /\ j.what = what /\ j.at = at /\ j.uri = u /\ j.to = u /\ j.kind = "none"
           /\ ~j.on /\ ~j.late /\ j.got = {} /\ j.folders = <<>> /\ ~j.existed
<1>1. <<>> \in Seq(Frames)
  OBVIOUS
<1>2. j = [what |-> what, at |-> at, uri |-> u, to |-> u, kind |-> "none",
           on |-> FALSE, got |-> {}, folders |-> <<>>, existed |-> FALSE, late |-> FALSE]
  BY DEF Job, NoJob
<1>3. j \in Jobs
  BY <1>1, <1>2 DEF Jobs, Kinds
<1> QED
  BY <1>2, <1>3

LEMMA LaterOwes ==
    ASSUME NEW j, NEW k, Later(j, k), NEW w
    PROVE  /\ LateLoad(j, w) => LateLoad(k, w)
           /\ OwesFolder(j, w) => OwesFolder(k, w)
           /\ \A v : OwesChild(j, w, v) => OwesChild(k, w, v)
<1>1. LateLoad(j, w) => LateLoad(k, w)
  BY DEF Later, LateLoad
<1>2. OwesFolder(j, w) => OwesFolder(k, w)
  BY <1>1 DEF Later, OwesFolder
<1>3. ASSUME NEW v, OwesChild(j, w, v)
      PROVE  OwesChild(k, w, v)
  BY <1>2, <1>3 DEF Later, OwesChild
<1> QED
  BY <1>1, <1>2, <1>3

LEMMA LaterHeard ==
    ASSUME NEW j, NEW k, Later(j, k), NEW r, Heard(j, r)
    PROVE  Heard(k, r)
BY DEF Later, Heard

LEMMA LaterOK ==
    ASSUME NEW j, NEW k, Later(j, k), JobOK(j)
    PROVE  JobOK(k)
BY DEF Later, JobOK

(* A job that is not late after a change on the server has heard nothing   *)
(* that the change touches.                                                *)
LEMMA HeardOver ==
    ASSUME NEW j \in Jobs, NEW k \in Jobs, Later(j, k), NEW r, NEW q, Heard(j, r),
           NEW xs \in SUBSET Paths,
           (\E x \in xs : About(j, x)) => k.late,
           \A v \in Paths : q[v] # r[v] => \E x \in xs : IsPrefix(x, v)
    PROVE  Heard(k, q)
<1> SUFFICES ASSUME ~k.late
             PROVE  Heard(k, q)
  BY DEF Heard
<1>1. /\ ~j.late
      /\ k.what = j.what /\ k.at = j.at /\ k.uri = j.uri /\ k.to = j.to
      /\ k.got \subseteq j.got
      /\ k.at = "read" => k.got = j.got
  BY DEF Later
<1>2. \A x \in xs : ~About(j, x)
  OBVIOUS
<1>3. /\ j.uri \in Paths /\ j.to \in Paths /\ j.got \subseteq Entries
  BY DEF Jobs
<1>4. ASSUME j.what # "load", j.at \in {"done", "notFound"}, NEW y \in {j.uri, j.to}
      PROVE  q[y] = r[y]
  <2>1. \A x \in xs : ~IsPrefix(x, y)
    BY <1>2, <1>4 DEF About
  <2> QED
    BY <1>3, <1>4, <2>1
<1>5. ASSUME j.what = "load", j.at \in {"read", "listed"}
      PROVE  /\ q[j.uri] = r[j.uri]
             /\ \A v \in Kids(j.uri) : q[v] = r[v]
  <2>1. \A x \in xs : Parent(x) # j.uri /\ ~IsPrefix(x, j.uri)
    BY <1>2, <1>5 DEF About
  <2>2. q[j.uri] = r[j.uri]
    BY <1>3, <2>1
  <2>3. ASSUME NEW v \in Kids(j.uri)
        PROVE  q[v] = r[v]
    <3>1. v \in Paths /\ Parent(v) = j.uri
      BY DEF Kids
    <3>2. ASSUME NEW x \in xs, IsPrefix(x, v)
          PROVE  FALSE
      <4>1. x # v
        BY <2>1, <3>1
      <4>2. IsPrefix(x, Parent(v))
        BY <3>1, <3>2, <4>1, AboveParent
      <4> QED
        BY <2>1, <3>1, <4>2
    <3> QED
      BY <3>1, <3>2
  <2> QED
    BY <2>2, <2>3
<1>6. k.what \in {"create", "query"} /\ k.at = "done" => q[k.uri] # "none"
  BY <1>1, <1>4 DEF Heard
<1>7. k.what = "rename" /\ k.at = "done" => q[k.uri] = "none" /\ q[k.to] # "none"
  BY <1>1, <1>4 DEF Heard
<1>8. k.what = "delete" /\ k.at \in {"done", "notFound"} => q[k.to] = "none"
  BY <1>1, <1>4 DEF Heard
<1>9. ASSUME k.what = "load", k.at \in {"read", "listed"}, NEW e \in k.got
      PROVE  e.uri \in Kids(k.uri) /\ q[e.uri] # "none"
  <2>1. e \in j.got
    BY <1>1, <1>9
  <2>2. e.uri \in Kids(j.uri) /\ r[e.uri] # "none"
    BY <1>1, <1>9, <2>1 DEF Heard
  <2> QED
    BY <1>1, <1>5, <1>9, <2>2
<1>10. ASSUME k.what = "load", k.at = "read"
       PROVE  /\ q[k.uri] = "dir"
              /\ \A v \in Kids(k.uri) : q[v] # "none" => \E e \in k.got : e.uri = v
  <2>1. /\ r[j.uri] = "dir"
        /\ \A v \in Kids(j.uri) : r[v] # "none" => \E e \in j.got : e.uri = v
    BY <1>1, <1>10 DEF Heard
  <2> QED
    BY <1>1, <1>5, <1>10, <2>1
<1> QED
  BY <1>6, <1>7, <1>8, <1>9, <1>10 DEF Heard

LEMMA OvertakenLater ==
    ASSUME job \in [Threads -> Jobs], NEW xs \in SUBSET Paths, NEW s \in Threads,
           NEW k, k = Overtaken(job, xs)[s]
    PROVE  /\ k \in Jobs
           /\ Later(job[s], k)
           /\ k.on = job[s].on
           /\ (\E x \in xs : About(job[s], x)) => k.late
<1> DEFINE j == job[s]
<1>1. j \in Jobs
  OBVIOUS
<1>2. k = IF \E x \in xs : About(j, x) THEN [j EXCEPT !.late = TRUE] ELSE j
  BY DEF Overtaken
<1> HIDE DEF j
<1>3. CASE \E x \in xs : About(j, x)
  <2>1. k = [j EXCEPT !.late = TRUE]
    BY <1>2, <1>3
  <2> QED
    BY <1>1, <2>1 DEF Jobs, Later, j
<1>4. CASE ~\E x \in xs : About(j, x)
  BY <1>1, <1>2, <1>4 DEF Later, j
<1> QED
  BY <1>3, <1>4

LEMMA DisplacedLater ==
    ASSUME job \in [Threads -> Jobs], NEW us, NEW s \in Threads,
           NEW k, k = Displaced(job, us)[s]
    PROVE  /\ k \in Jobs
           /\ Later(job[s], k)
           /\ k.on => job[s].on /\ job[s].uri \notin us
           /\ k.late = job[s].late
           /\ k.folders = job[s].folders
<1> DEFINE j == job[s]
           got == IF j.at = "listed" /\ cache[j.uri].listed
                  THEN j.got \cap cache[j.uri].children ELSE j.got
<1>1. j \in Jobs
  OBVIOUS
<1>2. k = IF j.on /\ j.uri \in us THEN [j EXCEPT !.on = FALSE, !.got = got] ELSE j
  BY DEF Displaced
<1>3. got \subseteq j.got /\ (j.at # "listed" => got = j.got) /\ got \in SUBSET Entries
  BY <1>1 DEF Jobs
<1> HIDE DEF j, got
<1>4. CASE j.on /\ j.uri \in us
  <2>1. k = [j EXCEPT !.on = FALSE, !.got = got]
    BY <1>2, <1>4
  <2> QED
    BY <1>1, <1>3, <2>1 DEF Jobs, Later, j
<1>5. CASE ~(j.on /\ j.uri \in us)
  BY <1>1, <1>2, <1>5 DEF Later, j
<1> QED
  BY <1>4, <1>5

-------------------------------------------------------------------------------
(* The cache. *)

LEMMA NoDocFields ==
    /\ NoDoc \in Docs /\ DocOK(NoDoc)
    /\ NoDoc.kind = "none" /\ NoDoc.listed = FALSE /\ NoDoc.children = {}
BY DEF NoDoc, Docs, Kinds, DocOK

LEMMA NewDocFields ==
    ASSUME NEW kind \in Kinds, NEW d, d = NewDoc(kind)
    PROVE  /\ d \in Docs /\ DocOK(d)
           /\ d.kind = kind /\ d.listed = FALSE /\ d.children = {}
<1>1. d = [kind |-> kind, listed |-> FALSE, children |-> {}]
  BY DEF NewDoc, NoDoc
<1> QED
  BY <1>1 DEF Docs, DocOK

(* An entry is one of a document. *)
LEMMA CachedKind ==
    ASSUME NEW u \in Paths, cache \in [Paths -> Docs], DocOK(cache[u]), Cached(u)
    PROVE  cache[u].kind \in {"file", "dir"}
<1> DEFINE d == cache[u]
<1>1. d \in Docs /\ DocOK(d) /\ d # NoDoc
  BY DEF Cached
<1> HIDE DEF d
<1>2. d = [kind |-> d.kind, listed |-> d.listed, children |-> d.children]
  BY <1>1 DEF Docs
<1>3. d.kind # "none"
  <2> SUFFICES ASSUME d.kind = "none"
               PROVE  FALSE
    OBVIOUS
  <2>1. d.listed = FALSE /\ d.children = {}
    BY <1>1 DEF DocOK, Docs
  <2> QED
    BY <1>1, <1>2, <2>1 DEF NoDoc
<1>4. d.kind \in Kinds
  BY <1>1 DEF Docs
<1> QED
  BY <1>3, <1>4 DEF Kinds, d

(* Put: u has the new entry, its parent lists it, nothing else changes.    *)
IsPut(docs, u, d, c) ==
    /\ c \in [Paths -> Docs]
    /\ c[u] = d
    /\ \A p \in Paths : DocOK(c[p])
    /\ \A p \in Paths \ {u} :
          /\ c[p].kind = docs[p].kind /\ c[p].listed = docs[p].listed
          /\ \A v : Shows(c[p], v) <=>
                       \/ Shows(docs[p], v)
                       \/ p = Parent(u) /\ docs[p].listed /\ v = u

LEMMA PutFields ==
    ASSUME NEW docs \in [Paths -> Docs], \A p \in Paths : DocOK(docs[p]),
           NEW u \in Paths, NEW d \in Docs, DocOK(d), d.kind \in {"file", "dir"},
           NEW c, c = Put(docs, u, d)
    PROVE  IsPut(docs, u, d, c)
<1>1. \A p \in Paths :
         c[p] = IF p = u THEN d
                ELSE IF p = Parent(u) /\ docs[p].listed
                THEN [docs[p] EXCEPT !.children = {e \in docs[p].children : e.uri # u}
                                                     \cup {Entry(u, d.kind)}]
                ELSE docs[p]
  BY DEF Put
<1>2. c = [p \in Paths |-> c[p]]
  BY DEF Put
<1>3. Entry(u, d.kind) \in Entries /\ Entry(u, d.kind).uri = u
  BY DEF Entry, Entries
<1>4. ASSUME NEW p \in Paths \ {u}
      PROVE  /\ c[p] \in Docs /\ DocOK(c[p])
             /\ c[p].kind = docs[p].kind /\ c[p].listed = docs[p].listed
             /\ \A v : Shows(c[p], v) <=>
                       \/ Shows(docs[p], v)
                       \/ p = Parent(u) /\ docs[p].listed /\ v = u
  <2> DEFINE o == docs[p]
             n == c[p]
             es == {e \in o.children : e.uri # u} \cup {Entry(u, d.kind)}
  <2>1. o \in Docs /\ DocOK(o)
    BY <1>4
  <2>2. n = IF p = Parent(u) /\ o.listed THEN [o EXCEPT !.children = es] ELSE o
    BY <1>1, <1>4
  <2>3. es \in SUBSET Entries
    BY <1>3, <2>1 DEF Docs
  <2>4. \A v : (\E e \in es : e.uri = v) <=> (\E e \in o.children : e.uri = v) \/ v = u
    BY <1>3
  <2> HIDE DEF o, n, es
  <2> SUFFICES /\ n \in Docs /\ DocOK(n) /\ n.kind = o.kind /\ n.listed = o.listed
               /\ \A v : Shows(n, v) <=> Shows(o, v) \/ (p = Parent(u) /\ o.listed /\ v = u)
    BY DEF o, n
  <2>5. CASE p = Parent(u) /\ o.listed
    <3>1. n = [o EXCEPT !.children = es]
      BY <2>2, <2>5
    <3>2. n \in Docs /\ n.kind = o.kind /\ n.listed = o.listed /\ n.children = es
      BY <2>1, <2>3, <3>1 DEF Docs
    <3>3. DocOK(n)
      BY <2>1, <2>5, <3>2 DEF DocOK
    <3>4. \A v : Shows(n, v) <=> \E e \in es : e.uri = v
      BY <3>2 DEF Shows
    <3>5. \A v : Shows(o, v) <=> \E e \in o.children : e.uri = v
      BY DEF Shows
    <3> QED
      BY <2>4, <2>5, <3>2, <3>3, <3>4, <3>5
  <2>6. CASE ~(p = Parent(u) /\ o.listed)
    <3>1. n = o
      BY <2>2, <2>6
    <3> QED
      BY <2>1, <2>6, <3>1
  <2> QED
    BY <2>5, <2>6
<1>5. c[u] = d
  BY <1>1
<1>6. c \in [Paths -> Docs]
  BY <1>2, <1>4, <1>5
<1> QED
  BY <1>4, <1>5, <1>6 DEF IsPut

(* Drop: u has no entry, its parent does not list it.                      *)
IsDrop(docs, u, c) ==
    /\ c \in [Paths -> Docs]
    /\ c[u] = NoDoc
    /\ \A p \in Paths : DocOK(c[p])
    /\ \A p \in Paths \ {u} :
          /\ c[p].kind = docs[p].kind /\ c[p].listed = docs[p].listed
          /\ \A v : Shows(c[p], v) <=> Shows(docs[p], v) /\ ~(p = Parent(u) /\ v = u)

LEMMA DropFields ==
    ASSUME NEW docs \in [Paths -> Docs], \A p \in Paths : DocOK(docs[p]),
           NEW u \in Paths, NEW c, c = Drop(docs, u)
    PROVE  IsDrop(docs, u, c)
<1>1. \A p \in Paths :
         c[p] = IF p = u THEN NoDoc
                ELSE IF p = Parent(u)
                THEN [docs[p] EXCEPT !.children = {e \in docs[p].children : e.uri # u}]
                ELSE docs[p]
  BY DEF Drop
<1>2. c = [p \in Paths |-> c[p]]
  BY DEF Drop
<1>3. ASSUME NEW p \in Paths \ {u}
      PROVE  /\ c[p] \in Docs /\ DocOK(c[p])
             /\ c[p].kind = docs[p].kind /\ c[p].listed = docs[p].listed
             /\ \A v : Shows(c[p], v) <=> Shows(docs[p], v) /\ ~(p = Parent(u) /\ v = u)
  <2> DEFINE o == docs[p]
             n == c[p]
             es == {e \in o.children : e.uri # u}
  <2>1. o \in Docs /\ DocOK(o)
    BY <1>3
  <2>2. n = IF p = Parent(u) THEN [o EXCEPT !.children = es] ELSE o
    BY <1>1, <1>3
  <2>3. es \in SUBSET Entries
    BY <2>1 DEF Docs
  <2>4. \A v : (\E e \in es : e.uri = v) <=> (\E e \in o.children : e.uri = v) /\ v # u
    OBVIOUS
  <2>5. es \subseteq o.children
    OBVIOUS
  <2> HIDE DEF o, n, es
  <2>6. CASE p = Parent(u)
    <3>1. n = [o EXCEPT !.children = es]
      BY <2>2, <2>6
    <3>2. n \in Docs /\ n.kind = o.kind /\ n.listed = o.listed /\ n.children = es
      BY <2>1, <2>3, <3>1 DEF Docs
    <3>3. DocOK(n)
      BY <2>1, <2>5, <3>2 DEF DocOK
    <3> QED
      BY <2>4, <2>6, <3>2, <3>3 DEF Shows, o, n
  <2>7. CASE p # Parent(u)
    BY <2>1, <2>2, <2>7 DEF o, n
  <2> QED
    BY <2>6, <2>7
<1>4. c[u] = NoDoc /\ NoDoc \in Docs /\ DocOK(NoDoc)
  BY <1>1, NoDocFields
<1>5. c \in [Paths -> Docs]
  BY <1>2, <1>3, <1>4
<1> QED
  BY <1>3, <1>4, <1>5 DEF IsDrop

(* PutAll: the documents of es have new entries, their parents list them.  *)
IsPutAll(docs, es, c) ==
    /\ c \in [Paths -> Docs]
    /\ \A p \in Paths : DocOK(c[p])
    /\ \A e \in es : ~c[e.uri].listed
    /\ \A p \in Paths : (\A e \in es : e.uri # p) =>
          /\ c[p].kind = docs[p].kind /\ c[p].listed = docs[p].listed
          /\ \A v : Shows(c[p], v) <=>
                \/ Shows(docs[p], v)
                \/ docs[p].listed /\ \E e \in es : e.uri = v /\ Parent(v) = p

LEMMA PutAllFields ==
    ASSUME NEW docs \in [Paths -> Docs], \A p \in Paths : DocOK(docs[p]),
           NEW es \in SUBSET Entries, NEW c, c = PutAll(docs, es)
    PROVE  IsPutAll(docs, es, c)
<1> DEFINE Fresh(p) == {e \in es : Parent(e.uri) = p}
           Kept(p) == {e \in docs[p].children : \A n \in Fresh(p) : n.uri # e.uri}
<1>1. \A p \in Paths :
         c[p] = IF \E e \in es : e.uri = p THEN NewDoc((CHOOSE e \in es : e.uri = p).kind)
                ELSE IF docs[p].listed
                THEN [docs[p] EXCEPT !.children = Kept(p) \cup Fresh(p)]
                ELSE docs[p]
  BY DEF PutAll
<1>2. c = [p \in Paths |-> c[p]]
  BY DEF PutAll
<1>3. ASSUME NEW p \in Paths, \E e \in es : e.uri = p
      PROVE  c[p] \in Docs /\ DocOK(c[p]) /\ ~c[p].listed
  <2> DEFINE e == CHOOSE x \in es : x.uri = p
  <2>1. e \in es
    BY <1>3
  <2> HIDE DEF e
  <2>2. e.kind \in Kinds
    BY <2>1 DEF Entries, Kinds
  <2>3. c[p] = NewDoc(e.kind)
    BY <1>1, <1>3 DEF e
  <2> QED
    BY <2>2, <2>3, NewDocFields
<1>4. ASSUME NEW p \in Paths, \A e \in es : e.uri # p
      PROVE  /\ c[p] \in Docs /\ DocOK(c[p])
             /\ c[p].kind = docs[p].kind /\ c[p].listed = docs[p].listed
             /\ \A v : Shows(c[p], v) <=>
                       \/ Shows(docs[p], v)
                       \/ docs[p].listed /\ \E e \in es : e.uri = v /\ Parent(v) = p
  <2> DEFINE o == docs[p]
             n == c[p]
             all == Kept(p) \cup Fresh(p)
  <2>1. o \in Docs /\ DocOK(o)
    BY <1>4
  <2>2. n = IF o.listed THEN [o EXCEPT !.children = all] ELSE o
    BY <1>1, <1>4
  <2>3. all \in SUBSET Entries
    BY <2>1 DEF Docs
  <2>4. \A v : (\E e \in all : e.uri = v)
                 <=> (\E e \in o.children : e.uri = v) \/ \E e \in es : e.uri = v /\ Parent(v) = p
    OBVIOUS
  <2> HIDE DEF o, n, all
  <2>5. CASE o.listed
    <3>1. n = [o EXCEPT !.children = all]
      BY <2>2, <2>5
    <3>2. n \in Docs /\ n.kind = o.kind /\ n.listed = o.listed /\ n.children = all
      BY <2>1, <2>3, <3>1 DEF Docs
    <3>3. DocOK(n)
      BY <2>1, <2>5, <3>2 DEF DocOK
    <3>4. \A v : Shows(n, v) <=> \E e \in all : e.uri = v
      BY <3>2 DEF Shows
    <3>5. \A v : Shows(o, v) <=> \E e \in o.children : e.uri = v
      BY DEF Shows
    <3> QED
      BY <2>4, <2>5, <3>2, <3>3, <3>4, <3>5 DEF o, n
  <2>6. CASE ~o.listed
    BY <2>1, <2>2, <2>6 DEF o, n
  <2> QED
    BY <2>5, <2>6
<1>5. c \in [Paths -> Docs]
  BY <1>2, <1>3, <1>4
<1>6. \A e \in es : e.uri \in Paths
  BY DEF Entries
<1> QED
  BY <1>3, <1>4, <1>5, <1>6 DEF IsPutAll

(* Excuse: what is trusted afterwards was not excused before, nor is now.  *)
LEMMA ExcuseFields ==
    ASSUME NEW us \in SUBSET Paths, excused \subseteq Paths, Excuse(us)
    PROVE  /\ excused' \subseteq {u \in Paths : cache'[u].listed}
           /\ \A w \in Paths : Trusted(w)' => w \notin excused /\ w \notin us
BY DEF Excuse, Trusted

-------------------------------------------------------------------------------
(* What is left of ListInv to show after a step of t, which owed nothing   *)
(* in w, or owes it no more.                                               *)

LEMMA KeepFolder ==
    ASSUME ListInv, NEW t \in Threads, NEW w \in Paths, Trusted(w), StillOwes(t, w),
           remote[w] = "dir" => FolderThere(w)', OwesFolder(job[t], w) => FolderThere(w)'
    PROVE  FolderThere(w)'
<1>1. FolderThere(w)
  BY DEF ListInv
<1>2. ASSUME NEW s \in Threads \ {t}, OwesFolder(job[s], w)
      PROVE  FolderThere(w)'
  BY <1>2 DEF StillOwes, FolderThere
<1> QED
  BY <1>1, <1>2 DEF FolderThere

LEMMA KeepOwn ==
    ASSUME ListInv, NEW t \in Threads, NEW w \in Paths, Trusted(w), StillOwes(t, w),
           \A v \in Paths : Shows(cache'[w], v) => Shows(cache[w], v) \/ v \in Kids(w),
           LateLoad(job[t], w) => OwnChildren(w)'
    PROVE  OwnChildren(w)'
<1>1. OwnChildren(w)
  BY DEF ListInv
<1>2. ASSUME NEW s \in Threads \ {t}, LateLoad(job[s], w)
      PROVE  OwnChildren(w)'
  BY <1>2 DEF StillOwes, OwnChildren
<1>3. CASE \A v \in Paths : Shows(cache[w], v) => v \in Kids(w)
  <2>1. \A v \in Paths : Shows(cache'[w], v) => v \in Kids(w)
    BY <1>3
  <2> QED
    BY <2>1 DEF OwnChildren
<1> QED
  BY <1>1, <1>2, <1>3 DEF OwnChildren

LEMMA KeepChild ==
    ASSUME ListInv, NEW t \in Threads, NEW w \in Paths, Trusted(w), StillOwes(t, w),
           NEW v \in Kids(w),
           (Shows(cache[w], v) <=> remote[v] # "none") => ChildRight(w, v)',
           OwesChild(job[t], w, v) => ChildRight(w, v)'
    PROVE  ChildRight(w, v)'
<1>1. ChildRight(w, v)
  BY DEF ListInv
<1>2. v \in Paths
  BY DEF Kids
<1>3. ASSUME NEW s \in Threads \ {t}, OwesChild(job[s], w, v)
      PROVE  ChildRight(w, v)'
  BY <1>2, <1>3 DEF StillOwes, ChildRight
<1> QED
  BY <1>1, <1>3 DEF ChildRight

(* A step of t that is no one else's business: t goes on, or ends, without *)
(* having been to the server or owing anything.                            *)
LEMMA OwnStep ==
    ASSUME OpsInv, NEW t \in Threads, NEW j \in Jobs, job' = [job EXCEPT ![t] = j],
           JobOK(j), Heard(j, remote), ~j.on \/ cache[j.uri].kind = "dir",
           job[t].at \notin {"done", "notFound"}, ~(job[t].at = "listed" /\ job[t].late),
           UNCHANGED <<remote, cache, excused>>, changes' \in 0..Changes
    PROVE  OpsInv'
<1>1. TypeInv /\ HeardInv /\ ListInv
  BY DEF OpsInv
<1>2. /\ remote \in Trees /\ cache \in [Paths -> Docs] /\ job \in [Threads -> Jobs]
      /\ excused \subseteq {u \in Paths : cache[u].listed}
      /\ \A s \in Threads : job[s].on => cache[job[s].uri].kind = "dir"
      /\ \A s \in Threads : JobOK(job[s])
      /\ \A u \in Paths : DocOK(cache[u])
  BY <1>1 DEF TypeInv, TypeOK
<1>3. job' \in [Threads -> Jobs] /\ job'[t] = j /\ \A s \in Threads \ {t} : job'[s] = job[s]
  BY <1>2
<1>4. TypeInv'
  <2>1. TypeOK'
    <3>1. \A s \in Threads : job'[s].on => cache'[job'[s].uri].kind = "dir"
      BY <1>2, <1>3
    <3> QED
      BY <1>2, <1>3, <3>1 DEF TypeOK
  <2>2. \A s \in Threads : JobOK(job'[s])
    BY <1>2, <1>3
  <2> QED
    BY <1>2, <2>1, <2>2 DEF TypeInv
<1>5. HeardInv'
  BY <1>1, <1>3 DEF HeardInv
<1>6. ListInv'
  <2> SUFFICES ASSUME NEW w \in Paths, Trusted(w)'
               PROVE  /\ FolderThere(w)'
                      /\ OwnChildren(w)'
                      /\ \A v \in Kids(w) : ChildRight(w, v)'
    BY DEF ListInv
  <2>1. Trusted(w) /\ cache' = cache /\ remote' = remote
    BY DEF Trusted
  <2>2. StillOwes(t, w)
    BY <1>3 DEF StillOwes
  <2>3. /\ ~LateLoad(job[t], w) /\ ~OwesFolder(job[t], w)
        /\ \A v \in Paths : ~OwesChild(job[t], w, v)
    BY DEF LateLoad, OwesFolder, OwesChild
  <2>4. FolderThere(w)'
    <3>1. remote[w] = "dir" => FolderThere(w)'
      BY <2>1 DEF FolderThere
    <3> QED
      BY <1>1, <2>1, <2>2, <2>3, <3>1, KeepFolder
  <2>5. OwnChildren(w)'
    BY <1>1, <2>1, <2>2, <2>3, KeepOwn
  <2>6. ASSUME NEW v \in Kids(w)
        PROVE  ChildRight(w, v)'
    <3>1. v \in Paths
      BY DEF Kids
    <3>2. (Shows(cache[w], v) <=> remote[v] # "none") => ChildRight(w, v)'
      BY <2>1 DEF ChildRight
    <3> QED
      BY <1>1, <2>1, <2>2, <2>3, <3>1, <3>2, KeepChild
  <2> QED
    BY <2>4, <2>5, <2>6
<1> QED
  BY <1>4, <1>5, <1>6 DEF OpsInv

(* The parts of the invariant that a step begins with. *)
LEMMA Parts ==
    ASSUME OpsInv
    PROVE  /\ HeardInv /\ ListInv
           /\ remote \in Trees /\ remote \in [Paths -> Kinds]
           /\ cache \in [Paths -> Docs] /\ job \in [Threads -> Jobs]
           /\ excused \subseteq {u \in Paths : cache[u].listed} /\ excused \subseteq Paths
           /\ changes \in 0..Changes
           /\ \A s \in Threads : job[s].on => cache[job[s].uri].kind = "dir"
           /\ \A s \in Threads : JobOK(job[s])
           /\ \A u \in Paths : DocOK(cache[u])
<1>1. remote \in [Paths -> Kinds]
  BY DEF OpsInv, TypeInv, TypeOK, Trees
<1> QED
  BY <1>1 DEF OpsInv, TypeInv, TypeOK

(* An operation that begins or ends counts. *)
LEMMA Counting ==
    ASSUME changes \in 0..Changes
    PROVE  changes < Changes /\ changes' = changes + 1 => changes' \in 0..Changes
BY PathsAssumption

-------------------------------------------------------------------------------
(* The steps of a job alone. *)

LEMMA QueryOnServerInv ==
    ASSUME OpsInv, NEW t \in Threads, QueryOnServer(t)
    PROVE  OpsInv'
<1>1. PICK u \in Paths :
         /\ remote[u] # "none"
         /\ Starts(t, [Job("query", "done", u) EXCEPT !.kind = remote[u]], {})
  BY DEF QueryOnServer
<1> DEFINE o == Job("query", "done", u)
           j == [o EXCEPT !.kind = remote[u]]
<1>2. /\ o \in Jobs
      /\ o.what = "query" /\ o.at = "done" /\ o.uri = u /\ ~o.on
  BY JobFields DEF Ats
<1>3. remote[u] \in Kinds
  BY Parts
<1> HIDE DEF o
<1>4. j \in Jobs /\ j.what = "query" /\ j.at = "done" /\ j.uri = u /\ ~j.on /\ j.kind = remote[u]
  BY <1>2, <1>3 DEF Jobs
<1> HIDE DEF j
<1>5. job' = [job EXCEPT ![t] = j]
  <2>1. \A s \in Threads : Overtaken(job, {})[s] = job[s]
    BY DEF Overtaken
  <2>2. Overtaken(job, {}) = job
    BY <2>1, Parts DEF Overtaken
  <2> QED
    BY <1>1, <2>2 DEF Starts, j, o
<1>6. JobOK(j) /\ Heard(j, remote)
  BY <1>1, <1>4 DEF JobOK, Heard
<1>7. job[t].at = "idle"
  BY Parts DEF QueryOnServer, Free, JobOK
<1>8. changes' \in 0..Changes /\ UNCHANGED <<remote, cache, excused>>
  BY Parts DEF QueryOnServer
<1> QED
  BY <1>4, <1>5, <1>6, <1>7, <1>8, OwnStep

LEMMA DeleteLooksInv ==
    ASSUME OpsInv, NEW t \in Threads, DeleteLooks(t)
    PROVE  OpsInv'
<1>1. PICK u \in Paths, at \in {"notFound", "unlink", "enter"} :
         /\ job' = [job EXCEPT ![t] = Job("delete", at, u)]
         /\ at = "notFound" => remote[u] = "none"
  BY DEF DeleteLooks
<1> DEFINE j == Job("delete", at, u)
<1>2. /\ j \in Jobs
      /\ j.what = "delete" /\ j.at = at /\ j.uri = u /\ j.to = u /\ ~j.on
  BY JobFields DEF Ats
<1> HIDE DEF j
<1>3. job' = [job EXCEPT ![t] = j]
  BY <1>1 DEF j
<1>4. JobOK(j) /\ Heard(j, remote)
  BY <1>1, <1>2 DEF JobOK, Heard
<1>5. job[t].at = "idle"
  BY Parts DEF DeleteLooks, Free, JobOK
<1>6. changes' \in 0..Changes /\ UNCHANGED <<remote, cache, excused>>
  BY Parts, Counting DEF DeleteLooks
<1> QED
  BY <1>2, <1>3, <1>4, <1>5, <1>6, OwnStep

LEMMA LoadStartsInv ==
    ASSUME OpsInv, NEW t \in Threads, LoadStarts(t)
    PROVE  OpsInv'
<1>1. PICK u \in Paths :
         /\ cache[u].kind = "dir"
         /\ job' = [job EXCEPT ![t] = [Job("load", "queued", u) EXCEPT !.on = TRUE]]
  BY DEF LoadStarts
<1> DEFINE o == Job("load", "queued", u)
           j == [o EXCEPT !.on = TRUE]
<1>2. o \in Jobs /\ o.what = "load" /\ o.at = "queued" /\ o.uri = u
  BY JobFields DEF Ats
<1> HIDE DEF o
<1>3. j \in Jobs /\ j.what = "load" /\ j.at = "queued" /\ j.uri = u
  BY <1>2 DEF Jobs
<1> HIDE DEF j
<1>4. job' = [job EXCEPT ![t] = j]
  BY <1>1 DEF j, o
<1>5. JobOK(j) /\ Heard(j, remote)
  BY <1>3 DEF JobOK, Heard
<1>6. job[t].at = "idle"
  BY Parts DEF LoadStarts, Free, JobOK
<1>7. changes' \in 0..Changes /\ UNCHANGED <<remote, cache, excused>>
  BY Parts DEF LoadStarts
<1> QED
  BY <1>1, <1>3, <1>4, <1>5, <1>6, <1>7, OwnStep

(* A job that ends where it owes nothing. *)
LEMMA EndsQuietly ==
    ASSUME OpsInv, NEW t \in Threads, job' = [job EXCEPT ![t] = NoJob],
           job[t].at \in {"queued", "enter", "unlink", "rmdir"},
           UNCHANGED <<remote, cache, excused, changes>>
    PROVE  OpsInv'
<1>1. NoJob \in Jobs /\ JobOK(NoJob) /\ Heard(NoJob, remote) /\ ~NoJob.on
  BY NoJobFields DEF JobOK, Heard
<1>2. changes' \in 0..Changes
  BY Parts
<1> QED
  BY <1>1, <1>2, OwnStep

(* What a folder has on the server are entries. *)
LEMMA OnServerEntries ==
    ASSUME remote \in [Paths -> Kinds], NEW u
    PROVE  OnServer(u) \in SUBSET Entries
<1>1. \A v \in Kids(u) : remote[v] # "none" => Entry(v, remote[v]) \in Entries
  BY DEF Kids, Kinds, Entry, Entries
<1> QED
  BY <1>1 DEF OnServer

LEMMA LoadReadsInv ==
    ASSUME OpsInv, NEW t \in Threads, LoadReads(t) \/ LoadFails(t)
    PROVE  OpsInv'
<1>1. /\ job[t].what = "load" /\ job[t].at = "queued"
      /\ UNCHANGED <<remote, cache, excused, changes>>
  BY DEF LoadReads, LoadFails, Is
<1>2. CASE job' = [job EXCEPT ![t] = NoJob]
  BY <1>1, <1>2, EndsQuietly
<1>3. CASE LoadReads(t) /\ remote[job[t].uri] = "dir"
  <2> DEFINE o == job[t]
             got == OnServer(o.uri)
             j == [o EXCEPT !.at = "read", !.got = got, !.late = FALSE]
  <2>1. job' = [job EXCEPT ![t] = j]
    BY <1>3, Parts DEF LoadReads
  <2>2. o \in Jobs /\ o.what = "load" /\ o.uri \in Paths
    BY <1>1, Parts DEF Jobs
  <2>3. /\ \A e \in got : e.uri \in Kids(o.uri) /\ remote[e.uri] # "none"
        /\ \A v \in Kids(o.uri) : remote[v] # "none" => \E e \in got : e.uri = v
    <3>1. \A v : Entry(v, remote[v]).uri = v
      BY DEF Entry
    <3>2. \A v \in Kids(o.uri) : remote[v] # "none" => Entry(v, remote[v]) \in got
      BY DEF OnServer
    <3> QED
      BY <3>1, <3>2 DEF OnServer
  <2>4. got \in SUBSET Entries
    BY Parts, OnServerEntries
  <2>5. o.on => cache[o.uri].kind = "dir"
    BY Parts
  <2> HIDE DEF o, got
  <2>6. /\ j \in Jobs
        /\ j.what = "load" /\ j.at = "read" /\ j.uri = o.uri /\ j.on = o.on /\ j.got = got
    BY <2>2, <2>4 DEF Jobs, Ats
  <2> HIDE DEF j
  <2>7. JobOK(j) /\ Heard(j, remote)
    BY <1>3, <2>3, <2>6 DEF JobOK, Heard, o
  <2>8. changes' \in 0..Changes
    BY <1>1, Parts
  <2> QED
    BY <1>1, <2>1, <2>5, <2>6, <2>7, <2>8, OwnStep
<1>4. job' = [job EXCEPT ![t] = NoJob] \/ (LoadReads(t) /\ remote[job[t].uri] = "dir")
  BY DEF LoadReads, LoadFails, Ends
<1> QED
  BY <1>2, <1>3, <1>4

(* A delete goes on with a document in the innermost folder, or with that. *)
LEMMA GoingOnFields ==
    ASSUME NEW t \in Threads, job[t] \in Jobs, NEW folders \in Seq(Frames), folders # <<>>,
           NEW j \in GoingOn(t, folders)
    PROVE  /\ j \in Jobs
           /\ j.at \in {"rmdir", "enter", "unlink"}
           /\ j.what = job[t].what /\ j.on = job[t].on /\ j.uri = job[t].uri
           /\ j.kind = job[t].kind
<1> DEFINE o == job[t]
           top == Last(folders)
           rest == Front(folders)
<1>1. o \in Jobs
  OBVIOUS
<1>2. top \in Frames /\ rest \in Seq(Frames)
  <2>1. Len(folders) \in Nat /\ Len(folders) # 0
    OBVIOUS
  <2>2. Len(folders) \in 1..Len(folders)
    BY <2>1
  <2>3. top \in Frames
    BY <2>2 DEF Last
  <2>4. rest \in Seq(Frames)
    BY <2>1 DEF Front
  <2> QED
    BY <2>3, <2>4
<1>3. \/ j = [o EXCEPT !.at = "rmdir", !.to = top.uri, !.folders = rest]
      \/ \E e \in top.rest :
            j = [o EXCEPT !.at = IF e.kind = "dir" THEN "enter" ELSE "unlink",
                          !.to = e.uri,
                          !.folders = rest \o <<[top EXCEPT !.rest = top.rest \ {e}]>>]
  BY DEF GoingOn
<1> HIDE DEF o, top, rest
<1>4. CASE j = [o EXCEPT !.at = "rmdir", !.to = top.uri, !.folders = rest]
  <2>1. top.uri \in Paths
    BY <1>2 DEF Frames
  <2> DEFINE to == top.uri
  <2> HIDE DEF to
  <2>2. j = [o EXCEPT !.at = "rmdir", !.to = to, !.folders = rest] /\ to \in Paths
    BY <1>4, <2>1 DEF to
  <2>3. j \in Jobs
    BY <1>1, <1>2, <2>2 DEF Jobs, Ats
  <2> QED
    BY <1>1, <2>2, <2>3 DEF Jobs, o
<1>5. ASSUME NEW e \in top.rest,
             j = [o EXCEPT !.at = IF e.kind = "dir" THEN "enter" ELSE "unlink",
                           !.to = e.uri,
                           !.folders = rest \o <<[top EXCEPT !.rest = top.rest \ {e}]>>]
      PROVE  /\ j \in Jobs
             /\ j.at \in {"rmdir", "enter", "unlink"}
             /\ j.what = o.what /\ j.on = o.on /\ j.uri = o.uri /\ j.kind = o.kind
  <2> DEFINE at == IF e.kind = "dir" THEN "enter" ELSE "unlink"
             to == e.uri
             frame == [top EXCEPT !.rest = top.rest \ {e}]
             all == rest \o <<frame>>
  <2>1. e \in Entries
    BY <1>2 DEF Frames
  <2>2. to \in Paths
    BY <2>1 DEF Entries
  <2>3. frame \in Frames
    BY <1>2 DEF Frames
  <2> HIDE DEF frame
  <2>4. all \in Seq(Frames)
    BY <1>2, <2>3
  <2>5. at \in {"enter", "unlink"}
    OBVIOUS
  <2>6. j = [o EXCEPT !.at = at, !.to = to, !.folders = all]
    BY <1>5 DEF frame
  <2> HIDE DEF at, to, all
  <2>7. j \in Jobs
    BY <1>1, <2>2, <2>4, <2>5, <2>6 DEF Jobs, Ats
  <2> QED
    BY <1>1, <2>5, <2>6, <2>7 DEF Jobs
<1> QED
  BY <1>3, <1>4, <1>5 DEF o

LEMMA NotFoundInv ==
    ASSUME OpsInv, NEW t \in Threads, job[t].what = "delete",
           job[t].at \in {"enter", "unlink", "rmdir"}, NotFound(t)
    PROVE  OpsInv'
<1> DEFINE o == job[t]
           j == [o EXCEPT !.at = "notFound", !.late = FALSE]
<1>1. o \in Jobs /\ o.what = "delete" /\ JobOK(o)
  BY Parts
<1>2. job' = [job EXCEPT ![t] = j]
  BY Parts DEF NotFound
<1>3. remote[o.to] = "none"
  BY DEF NotFound
<1> HIDE DEF o
<1>4. j \in Jobs /\ j.what = "delete" /\ j.at = "notFound" /\ j.to = o.to /\ j.on = o.on
  BY <1>1 DEF Jobs, Ats
<1> HIDE DEF j
<1>5. JobOK(j) /\ Heard(j, remote) /\ ~j.on
  BY <1>1, <1>3, <1>4 DEF JobOK, Heard
<1>6. changes' \in 0..Changes /\ UNCHANGED <<remote, cache, excused>>
  BY Parts DEF NotFound
<1> QED
  BY <1>2, <1>4, <1>5, <1>6, OwnStep

LEMMA DeleteEntersInv ==
    ASSUME OpsInv, NEW t \in Threads, DeleteEnters(t)
    PROVE  OpsInv'
<1>1. job[t].what = "delete" /\ job[t].at = "enter"
  BY DEF DeleteEnters, Is
<1>2. CASE NotFound(t)
  BY <1>1, <1>2, NotFoundInv
<1>3. CASE ~NotFound(t)
  <2> DEFINE u == job[t].to
             folders == Append(job[t].folders, [uri |-> u, rest |-> OnServer(u)])
  <2>1. PICK j \in GoingOn(t, folders) : job' = [job EXCEPT ![t] = j]
    BY <1>3 DEF DeleteEnters
  <2>2. UNCHANGED <<remote, cache, excused, changes>>
    BY <1>3 DEF DeleteEnters
  <2>3. job[t] \in Jobs /\ JobOK(job[t])
    BY Parts
  <2>4. folders \in Seq(Frames) /\ folders # <<>>
    <3>1. [uri |-> u, rest |-> OnServer(u)] \in Frames
      BY <2>3, Parts, OnServerEntries DEF Jobs, Frames
    <3>2. job[t].folders \in Seq(Frames)
      BY <2>3 DEF Jobs
    <3> QED
      BY <3>1, <3>2
  <2> HIDE DEF folders
  <2>5. /\ j \in Jobs
        /\ j.at \in {"rmdir", "enter", "unlink"}
        /\ j.what = "delete" /\ j.on = job[t].on
    BY <1>1, <2>3, <2>4, GoingOnFields
  <2>6. JobOK(j) /\ Heard(j, remote) /\ ~j.on
    BY <1>1, <2>3, <2>5 DEF JobOK, Heard
  <2>7. changes' \in 0..Changes
    BY <2>2, Parts
  <2> QED
    BY <1>1, <2>1, <2>2, <2>5, <2>6, <2>7, OwnStep
<1> QED
  BY <1>2, <1>3

LEMMA DeleteFailsInv ==
    ASSUME OpsInv, NEW t \in Threads, DeleteFails(t)
    PROVE  OpsInv'
BY EndsQuietly DEF DeleteFails, Ends

-------------------------------------------------------------------------------
(* The server. *)

(* Between a folder and what is deep in it there is a child of the folder. *)
LEMMA ChildAbove ==
    ASSUME NEW u \in Paths, NEW v \in Paths, IsPrefix(u, v), u # v
    PROVE  \E c \in Kids(u) : IsPrefix(c, v)
<1> DEFINE n == Len(u) + 1
           c == SubSeq(v, 1, n)
<1>1. u \in Seq(Names) /\ v \in Seq(Names) /\ Len(u) \in Nat /\ Len(v) \in Nat
  BY PathsAssumption
<1>2. Len(u) <= Len(v) /\ \A i \in 1..Len(u) : u[i] = v[i]
  BY PrefixByIndex
<1>3. Len(u) # Len(v)
  BY <1>2, SamePath
<1>4. n \in 0..Len(v) /\ n \in Nat /\ n # 0 /\ n - 1 = Len(u)
  BY <1>1, <1>2, <1>3
<1>5. c \in Paths
  BY <1>4, PathsAssumption
<1> HIDE DEF n
<1>6. Len(c) = n /\ \A i \in 1..n : c[i] = v[i]
  BY <1>1, <1>4
<1> HIDE DEF c
<1>7. c # <<>>
  BY <1>4, <1>6
<1>8. Len(c) <= Len(v)
  BY <1>4, <1>6
<1>9. IsPrefix(c, v)
  BY <1>5, <1>6, <1>8, PrefixByIndex
<1>10. Parent(c) \in Paths /\ Len(Parent(c)) = Len(c) - 1 /\ IsPrefix(Parent(c), c)
  BY <1>5, <1>7, ParentOf
<1>11. IsPrefix(Parent(c), v)
  BY <1>5, <1>9, <1>10, PrefixOrder
<1>12. Len(Parent(c)) = Len(u)
  BY <1>4, <1>6, <1>10
<1>13. \A i \in 1..Len(u) : Parent(c)[i] = v[i]
  BY <1>10, <1>11, <1>12, PrefixByIndex
<1>14. Parent(c) = u
  BY <1>2, <1>10, <1>12, <1>13, SamePath
<1> QED
  BY <1>5, <1>7, <1>9, <1>14 DEF Kids

(* What lies above a document that has a place when it is moved has one.   *)
LEMMA MovedAbove ==
    ASSUME NEW p \in Paths, NEW v \in Paths, NEW from \in Paths, NEW to \in Paths,
           NEW w \in Paths, IsPrefix(from, p), IsPrefix(p, v), w = Moved(v, from, to)
    PROVE  Moved(p, from, to) \in Paths
<1> DEFINE q == Moved(p, from, to)
           tail == SubSeq(p, Len(from) + 1, Len(p))
           n == Len(to) + Len(p) - Len(from)
           c == SubSeq(w, 1, n)
<1>1. /\ p \in Seq(Names) /\ v \in Seq(Names) /\ from \in Seq(Names) /\ to \in Seq(Names)
      /\ w \in Seq(Names)
      /\ Len(p) \in Nat /\ Len(v) \in Nat /\ Len(from) \in Nat /\ Len(to) \in Nat
      /\ Len(w) \in Nat
  BY PathsAssumption
<1>2. Len(from) <= Len(p) /\ Len(p) <= Len(v) /\ \A i \in 1..Len(p) : p[i] = v[i]
  BY PrefixByIndex
<1>3. IsPrefix(from, v)
  BY PrefixOrder
<1>4. Len(w) = Len(to) + Len(v) - Len(from)
  BY <1>3, MovedPath
<1>5. \A i \in 1..Len(to) : w[i] = to[i]
  BY <1>3, MovedPath
<1>6. \A i \in 1..Len(v) - Len(from) : w[Len(to) + i] = v[Len(from) + i]
  BY <1>3, MovedPath
<1>7. n \in 0..Len(w) /\ n \in Nat /\ n - Len(to) = Len(p) - Len(from) /\ Len(to) <= n
  BY <1>1, <1>2, <1>4
<1>8. c \in Paths
  BY <1>7, PathsAssumption
<1>9. tail \in Seq(Names) /\ Len(tail) = Len(p) - Len(from)
      /\ \A i \in 1..Len(p) - Len(from) : tail[i] = p[Len(from) + i]
  <2>1. tail = [i \in 1..Len(p) - Len(from) |-> p[Len(from) + i]]
    BY <1>1, <1>2
  <2>2. \A i \in 1..Len(p) - Len(from) : p[Len(from) + i] \in Names
    BY <1>1, <1>2
  <2> QED
    BY <1>1, <1>2, <2>1, <2>2
<1> HIDE DEF tail, n
<1>10. Len(c) = n /\ \A i \in 1..n : c[i] = w[i]
  BY <1>1, <1>7
<1> HIDE DEF c
<1>11. q = to \o tail
  BY DEF Moved, tail
<1> HIDE DEF q
<1>12. to \in Seq(Names) /\ tail \in Seq(Names)
  BY <1>1, <1>9
<1>13. q \in Seq(Names) /\ Len(q) = Len(to) + Len(tail)
  <2>1. (to \o tail) \in Seq(Names) /\ Len(to \o tail) = Len(to) + Len(tail)
    BY <1>12
  <2> QED
    BY <1>11, <2>1
<1>14. /\ \A i \in 1..Len(to) : q[i] = to[i]
       /\ \A i \in 1..Len(tail) : q[Len(to) + i] = tail[i]
  BY <1>11, <1>12
<1>15. Len(q) = n
  BY <1>1, <1>7, <1>9, <1>13
<1>16. ASSUME NEW i \in 1..n
       PROVE  q[i] = c[i]
  <2>1. CASE i <= Len(to)
    <3>1. i \in 1..Len(to)
      BY <1>1, <1>7, <2>1
    <3> QED
      BY <1>5, <1>10, <1>14, <3>1
  <2>2. CASE ~(i <= Len(to))
    <3> DEFINE k == i - Len(to)
    <3>1. /\ k \in 1..Len(tail) /\ k \in 1..Len(p) - Len(from) /\ k \in 1..Len(v) - Len(from)
          /\ Len(to) + k = i /\ Len(from) + k \in 1..Len(p)
      BY <1>1, <1>2, <1>7, <1>9, <2>2
    <3> HIDE DEF k
    <3>2. q[Len(to) + k] = tail[k] /\ tail[k] = p[Len(from) + k]
      BY <1>9, <1>14, <3>1
    <3>3. w[Len(to) + k] = v[Len(from) + k] /\ p[Len(from) + k] = v[Len(from) + k]
      BY <1>2, <1>6, <3>1
    <3> QED
      BY <1>10, <3>1, <3>2, <3>3
  <2> QED
    BY <2>1, <2>2
<1>17. q = c
  <2>1. c \in Seq(Names)
    BY <1>8, PathsAssumption
  <2>2. q = [i \in 1..Len(q) |-> q[i]] /\ c = [i \in 1..Len(c) |-> c[i]]
    BY <1>13, <2>1
  <2> QED
    BY <1>10, <1>15, <1>16, <2>2
<1> QED
  BY <1>8, <1>17 DEF q

(* A tree with another document is a tree.                                 *)
LEMMA TreeCreated ==
    ASSUME NEW r \in Trees, NEW u \in Paths \ {<<>>}, NEW kind \in {"file", "dir"},
           r[Parent(u)] = "dir", kind = "dir" => Len(u) < Depth, r[u] # "dir",
           NEW q, q = [r EXCEPT ![u] = kind]
    PROVE  q \in Trees
<1>1. r \in [Paths -> Kinds]
  BY DEF Trees
<1>2. q \in [Paths -> Kinds] /\ q[u] = kind /\ \A w \in Paths \ {u} : q[w] = r[w]
  BY <1>1 DEF Kinds
<1>3. q[<<>>] = "dir"
  BY <1>2, PathsAssumption DEF Trees
<1>4. \A w \in Paths : q[w] = "dir" => Len(w) < Depth
  BY <1>2 DEF Trees
<1>5. ASSUME NEW w \in Paths, q[w] # "dir", NEW v \in Under(w) \ {w}
      PROVE  q[v] = "none"
  <2>1. v \in Paths /\ IsPrefix(w, v) /\ v # w
    BY DEF Under
  <2>2. r[w] # "dir"
    BY <1>2, <1>5
  <2>3. r[v] = "none"
    BY <1>5, <2>2 DEF Trees
  <2>4. v # u
    <3> SUFFICES ASSUME v = u
                 PROVE  FALSE
      OBVIOUS
    <3>1. IsPrefix(w, Parent(u)) /\ Parent(u) \in Paths
      BY <2>1, AboveParent, ParentOf
    <3>2. w # Parent(u)
      BY <2>2
    <3>3. Parent(u) \in Under(w) \ {w}
      BY <3>1, <3>2 DEF Under
    <3> QED
      BY <2>2, <3>3 DEF Trees
  <2> QED
    BY <1>2, <2>1, <2>3, <2>4
<1> QED
  BY <1>2, <1>3, <1>4, <1>5 DEF Trees

(* So is one without a file or an empty folder.                            *)
LEMMA TreeDeleted ==
    ASSUME remote \in Trees, NEW u \in Paths \ {<<>>},
           remote[u] # "dir" \/ OnServer(u) = {},
           NEW q, q = [remote EXCEPT ![u] = "none"]
    PROVE  q \in Trees
<1>1. remote \in [Paths -> Kinds]
  BY DEF Trees
<1>2. q \in [Paths -> Kinds] /\ q[u] = "none" /\ \A w \in Paths \ {u} : q[w] = remote[w]
  BY <1>1 DEF Kinds
<1>3. q[<<>>] = "dir"
  BY <1>2, PathsAssumption DEF Trees
<1>4. \A w \in Paths : q[w] = "dir" => Len(w) < Depth
  BY <1>2 DEF Trees
<1>5. ASSUME NEW w \in Paths, q[w] # "dir", NEW v \in Under(w) \ {w}
      PROVE  q[v] = "none"
  <2>1. v \in Paths /\ IsPrefix(w, v) /\ v # w
    BY DEF Under
  <2>2. CASE remote[w] # "dir"
    <3>1. remote[v] = "none"
      BY <1>5, <2>2 DEF Trees
    <3> QED
      BY <1>2, <2>1, <3>1
  <2>3. CASE remote[w] = "dir"
    <3>1. w = u
      BY <1>2, <1>5, <2>3
    <3>2. PICK c \in Kids(u) : IsPrefix(c, v)
      BY <2>1, <3>1, ChildAbove
    <3>3. c \in Paths /\ remote[c] = "none"
      BY <2>3, <3>1 DEF Kids, OnServer
    <3>4. remote[v] = "none"
      <4>1. v = c \/ v \in Under(c) \ {c}
        BY <2>1, <3>2 DEF Under
      <4> QED
        BY <3>3, <4>1 DEF Trees
    <3> QED
      BY <1>2, <2>1, <3>4
  <2> QED
    BY <2>2, <2>3
<1> QED
  BY <1>2, <1>3, <1>4, <1>5 DEF Trees

(* What the server takes for a rename. *)
CanRename(u, to) ==
    /\ u \in Paths \ {<<>>} /\ to \in Paths \ {<<>>}
    /\ remote[u] # "none"
    /\ remote[to] = "none"
    /\ remote[Parent(to)] = "dir"
    /\ ~IsPrefix(u, to)
    /\ \A v \in Under(u) :
          /\ remote[v] # "none" => Moved(v, u, to) \in Paths
          /\ remote[v] = "dir" => Len(Moved(v, u, to)) < Depth

(* The source and the target of a rename lie beside each other.            *)
LEMMA RenameBeside ==
    ASSUME remote \in Trees, NEW u, NEW to, CanRename(u, to)
    PROVE  ~IsPrefix(to, u)
<1> SUFFICES ASSUME IsPrefix(to, u)
             PROVE  FALSE
  OBVIOUS
<1>1. u \in Under(to) \ {to} /\ to \in Paths /\ remote[to] # "dir"
  BY DEF CanRename, Under
<1> QED
  BY <1>1 DEF Trees, CanRename

(* Where the documents of a renamed share come from. *)
LEMMA RenamedFrom ==
    ASSUME remote \in Trees, NEW u, NEW to, CanRename(u, to),
           NEW p \in Paths, NEW r, r = Renamed(u, to)[p]
    PROVE  /\ r \in Kinds
           /\ ~IsPrefix(u, p) /\ ~IsPrefix(to, p) => r = remote[p]
           /\ IsPrefix(u, p) => r = "none"
           /\ IsPrefix(to, p) =>
                 \/ r = "none"
                 \/ Moved(p, to, u) \in Paths /\ r = remote[Moved(p, to, u)]
<1>1. remote \in [Paths -> Kinds]
  BY DEF Trees
<1>2. r = IF IsPrefix(to, p) /\ Moved(p, to, u) \in Paths THEN remote[Moved(p, to, u)]
          ELSE IF IsPrefix(u, p) \/ IsPrefix(to, p) THEN "none"
          ELSE remote[p]
  BY DEF Renamed
<1>3. ~(IsPrefix(u, p) /\ IsPrefix(to, p))
  <2> SUFFICES ASSUME IsPrefix(u, p), IsPrefix(to, p)
               PROVE  FALSE
    OBVIOUS
  <2>1. u \in Paths /\ to \in Paths /\ Len(u) \in Nat /\ Len(to) \in Nat
    BY PathsAssumption DEF CanRename
  <2>2. IsPrefix(u, to) \/ IsPrefix(to, u)
    BY <2>1, PrefixOrder
  <2> QED
    BY <2>2, RenameBeside DEF CanRename
<1>4. r \in Kinds
  BY <1>1, <1>2 DEF Kinds
<1> QED
  BY <1>2, <1>3, <1>4

(* A tree in which a document was renamed is a tree. *)
LEMMA TreeRenamed ==
    ASSUME remote \in Trees, NEW u, NEW to, CanRename(u, to),
           NEW q, q = Renamed(u, to)
    PROVE  /\ q \in Trees
           /\ q[u] = "none" /\ q[to] # "none"
           /\ \A p \in Paths : q[p] # remote[p] => IsPrefix(u, p) \/ IsPrefix(to, p)
           /\ \A p \in Paths : remote[p] = "dir" /\ ~IsPrefix(u, p) => q[p] = "dir"
<1>1. u \in Paths /\ to \in Paths /\ u # <<>> /\ to # <<>> /\ <<>> \in Paths
  BY PathsAssumption DEF CanRename
<1>2. Len(u) \in Nat /\ Len(to) \in Nat /\ Len(<<>>) = 0 /\ Len(u) # 0 /\ Len(to) # 0
  <2>1. u \in Seq(Names) /\ to \in Seq(Names)
    BY <1>1, PathsAssumption
  <2> QED
    BY <1>1, <2>1
<1>3. \A p \in Paths : q[p] = Renamed(u, to)[p]
  OBVIOUS
<1>4. q \in [Paths -> Kinds]
  <2>1. q = [p \in Paths |-> q[p]]
    BY DEF Renamed
  <2> QED
    BY <1>3, <2>1, RenamedFrom
<1>5. q[<<>>] = "dir"
  <2>1. ~IsPrefix(u, <<>>) /\ ~IsPrefix(to, <<>>)
    BY <1>2 DEF IsPrefix
  <2>2. q[<<>>] = remote[<<>>]
    BY <1>1, <1>3, <2>1, RenamedFrom
  <2> QED
    BY <2>2 DEF Trees
<1>6. ASSUME NEW p \in Paths, IsPrefix(to, p), Moved(p, to, u) \in Paths, NEW m,
             m = Moved(p, to, u)
      PROVE  m \in Under(u) /\ Moved(m, u, to) = p
  <2>1. m \in Paths /\ IsPrefix(u, m)
    BY <1>1, <1>6, MovedPath
  <2>2. Moved(m, u, to) = p
    BY <1>1, <1>6, MovedPath
  <2> QED
    BY <2>1, <2>2 DEF Under
<1>7. ASSUME NEW p \in Paths, q[p] = "dir"
      PROVE  Len(p) < Depth
  <2>1. CASE IsPrefix(to, p)
    <3> DEFINE m == Moved(p, to, u)
    <3>1. m \in Paths /\ remote[m] = "dir"
      BY <1>3, <1>7, <2>1, RenamedFrom
    <3>2. m \in Under(u) /\ Moved(m, u, to) = p
      BY <1>6, <2>1, <3>1
    <3> HIDE DEF m
    <3> QED
      BY <3>1, <3>2 DEF CanRename
  <2>2. CASE ~IsPrefix(to, p)
    <3>1. q[p] = remote[p]
      BY <1>3, <1>7, <2>2, RenamedFrom
    <3> QED
      BY <1>7, <3>1 DEF Trees
  <2> QED
    BY <2>1, <2>2
<1>8. ASSUME NEW p \in Paths, q[p] # "dir", NEW v \in Under(p) \ {p}
      PROVE  q[v] = "none"
  <2>1. v \in Paths /\ IsPrefix(p, v) /\ v # p /\ Len(p) \in Nat /\ Len(to) \in Nat
    BY <1>2, PathsAssumption DEF Under
  <2>2. CASE ~IsPrefix(to, v)
    <3>1. ~IsPrefix(to, p)
      BY <1>1, <2>1, <2>2, PrefixOrder
    <3>2. CASE IsPrefix(u, v)
      BY <1>3, <2>1, <3>2, RenamedFrom
    <3>3. CASE ~IsPrefix(u, v)
      <4>1. ~IsPrefix(u, p)
        BY <1>1, <2>1, <3>3, PrefixOrder
      <4>2. q[p] = remote[p] /\ q[v] = remote[v]
        BY <1>3, <2>1, <2>2, <3>1, <3>3, <4>1, RenamedFrom
      <4> QED
        BY <1>8, <4>2 DEF Trees
    <3> QED
      BY <3>2, <3>3
  <2>3. CASE IsPrefix(to, v) /\ IsPrefix(to, p)
    <3> SUFFICES ASSUME q[v] # "none"
                 PROVE  FALSE
      OBVIOUS
    <3> DEFINE m == Moved(p, to, u)
               n == Moved(v, to, u)
    <3>1. n \in Paths /\ q[v] = remote[n]
      BY <1>3, <2>1, <2>3, RenamedFrom
    <3>2. m \in Paths
      BY <1>1, <2>1, <2>3, <3>1, MovedAbove
    <3>3. q[p] = remote[m]
      BY <2>3, <3>2 DEF Renamed
    <3> HIDE DEF m, n
    <3>4. IsPrefix(m, n) /\ m # n
      BY <1>1, <2>1, <2>3, <3>1, <3>2, MovedTree DEF m, n
    <3>5. n \in Under(m) \ {m}
      BY <3>1, <3>4 DEF Under
    <3> QED
      BY <1>8, <3>1, <3>2, <3>3, <3>5 DEF Trees
  <2>4. CASE IsPrefix(to, v) /\ ~IsPrefix(to, p)
    <3>1. p # to /\ IsPrefix(p, to)
      BY <1>1, <2>1, <2>4, PrefixOrder
    <3>2. IsPrefix(p, Parent(to)) /\ Parent(to) \in Paths
      BY <1>1, <3>1, AboveParent, ParentOf
    <3>3. ~IsPrefix(u, p)
      BY <1>1, <3>1, PrefixOrder DEF CanRename
    <3>4. q[p] = remote[p]
      BY <1>3, <2>4, <3>3, RenamedFrom
    <3>5. p # Parent(to)
      BY <1>8, <3>4 DEF CanRename
    <3>6. Parent(to) \in Under(p) \ {p}
      BY <3>2, <3>5 DEF Under
    <3>7. remote[Parent(to)] = "none"
      BY <1>8, <3>4, <3>6 DEF Trees
    <3> QED
      BY <3>7 DEF CanRename
  <2> QED
    BY <2>2, <2>3, <2>4
<1>9. q[u] = "none"
  BY <1>1, <1>3, PrefixOrder, RenamedFrom
<1>10. q[to] # "none"
  <2>1. IsPrefix(to, to)
    BY <1>1, PrefixOrder
  <2>2. Moved(to, to, u) = u
    <3>1. u \in Seq(Names) /\ to \in Seq(Names)
      BY <1>1, PathsAssumption
    <3>2. SubSeq(to, Len(to) + 1, Len(to)) = <<>>
      BY <1>2, <3>1
    <3> QED
      BY <3>1, <3>2 DEF Moved
  <2>3. q[to] = remote[u]
    BY <1>1, <2>1, <2>2 DEF Renamed
  <2> QED
    BY <2>3 DEF CanRename
<1>11. \A p \in Paths : q[p] # remote[p] => IsPrefix(u, p) \/ IsPrefix(to, p)
  BY <1>3, RenamedFrom
<1>12. ASSUME NEW p \in Paths, remote[p] = "dir", ~IsPrefix(u, p)
       PROVE  q[p] = "dir"
  <2>1. ~IsPrefix(to, p)
    <3> SUFFICES ASSUME IsPrefix(to, p)
                 PROVE  FALSE
      OBVIOUS
    <3>1. p # to /\ remote[to] # "dir"
      BY <1>12 DEF CanRename
    <3>2. p \in Under(to) \ {to}
      BY <3>1 DEF Under
    <3> QED
      BY <1>1, <1>12, <3>1, <3>2 DEF Trees
  <2> QED
    BY <1>3, <1>12, <2>1, RenamedFrom
<1> QED
  BY <1>4, <1>5, <1>7, <1>8, <1>9, <1>10, <1>11, <1>12 DEF Trees

(* After a change at xs on the server, by t, whose job is then j: the      *)
(* types, what the jobs have heard, and what those of the others owe.      *)
LEMMA ServerJobs ==
    ASSUME OpsInv, NEW t \in Threads, NEW xs \in SUBSET Paths, NEW j \in Jobs,
           job' = [Overtaken(job, xs) EXCEPT ![t] = j],
           JobOK(j), ~j.on, Heard(j, remote'), remote' \in Trees,
           \A v \in Paths : remote'[v] # remote[v] => \E x \in xs : IsPrefix(x, v),
           UNCHANGED <<cache, excused>>, changes' \in 0..Changes
    PROVE  /\ TypeInv' /\ HeardInv'
           /\ job'[t] = j
           /\ \A w \in Paths : StillOwes(t, w)
<1> DEFINE o == Overtaken(job, xs)
<1>1. /\ job \in [Threads -> Jobs]
      /\ \A s \in Threads : job[s].on => cache[job[s].uri].kind = "dir"
      /\ \A s \in Threads : JobOK(job[s]) /\ Heard(job[s], remote)
  BY Parts DEF HeardInv
<1>2. o = [s \in Threads |-> o[s]]
  BY DEF Overtaken
<1>3. \A s \in Threads : /\ o[s] \in Jobs /\ Later(job[s], o[s]) /\ o[s].on = job[s].on
                         /\ (\E x \in xs : About(job[s], x)) => o[s].late
  BY <1>1, OvertakenLater
<1> HIDE DEF o
<1>4. o \in [Threads -> Jobs]
  BY <1>2, <1>3
<1>5. job' \in [Threads -> Jobs] /\ job'[t] = j /\ \A s \in Threads \ {t} : job'[s] = o[s]
  BY <1>4 DEF o
<1>6. ASSUME NEW s \in Threads
      PROVE  /\ JobOK(job'[s])
             /\ Heard(job'[s], remote')
             /\ job'[s].on => cache'[job'[s].uri].kind = "dir"
  <2>1. CASE s = t
    BY <1>5, <2>1
  <2>2. CASE s # t
    <3>1. job'[s] = o[s]
      BY <1>5, <2>2
    <3>2. JobOK(o[s])
      BY <1>1, <1>3, LaterOK
    <3>3. Heard(o[s], remote')
      <4> DEFINE a == job[s]
                 b == o[s]
                 q == remote'
      <4>1. a \in Jobs /\ b \in Jobs /\ Later(a, b) /\ Heard(a, remote)
        BY <1>1, <1>3
      <4>2. (\E x \in xs : About(a, x)) => b.late
        BY <1>3
      <4>3. \A v \in Paths : q[v] # remote[v] => \E x \in xs : IsPrefix(x, v)
        OBVIOUS
      <4> HIDE DEF a, b, q
      <4>4. Heard(b, q)
        BY <4>1, <4>2, <4>3, HeardOver
      <4> QED
        BY <4>4 DEF b, q
    <3>4. o[s].uri = job[s].uri
      BY <1>3 DEF Later
    <3> QED
      BY <1>1, <1>3, <3>1, <3>2, <3>3, <3>4
  <2> QED
    BY <2>1, <2>2
<1>7. TypeInv'
  <2>1. TypeOK'
    BY <1>5, <1>6, Parts DEF TypeOK
  <2>2. \A u \in Paths : DocOK(cache'[u])
    BY Parts
  <2> QED
    BY <1>6, <2>1, <2>2 DEF TypeInv
<1>8. HeardInv'
  BY <1>6 DEF HeardInv
<1>9. ASSUME NEW w \in Paths
      PROVE  StillOwes(t, w)
  <2>1. ASSUME NEW s \in Threads \ {t}
        PROVE  /\ LateLoad(job[s], w) => LateLoad(job'[s], w)
               /\ OwesFolder(job[s], w) => OwesFolder(job'[s], w)
               /\ \A v \in Paths : OwesChild(job[s], w, v) => OwesChild(job'[s], w, v)
    <3>1. Later(job[s], job'[s])
      BY <1>3, <1>5
    <3> QED
      BY <3>1, LaterOwes
  <2> QED
    BY <2>1 DEF StillOwes
<1> QED
  BY <1>5, <1>7, <1>8, <1>9

(* A thread that has not been to the server owes nothing. *)
LEMMA OwesNothing ==
    ASSUME NEW j, j.at \notin {"done", "notFound", "listed"}, NEW w
    PROVE  ~LateLoad(j, w) /\ ~OwesFolder(j, w) /\ \A v : ~OwesChild(j, w, v)
BY DEF LateLoad, OwesFolder, OwesChild

(* The listings after a change on the server: the job of t owes what is    *)
(* different.                                                              *)
LEMMA ServerListings ==
    ASSUME OpsInv, NEW t \in Threads, job[t].at \notin {"done", "notFound", "listed"},
           UNCHANGED <<cache, excused>>,
           \A w \in Paths : StillOwes(t, w),
           \A w \in Paths : remote[w] = "dir" =>
              remote'[w] = "dir" \/ OwesFolder(job'[t], w),
           \A v \in Paths, w \in Paths : v \in Kids(w) =>
              \/ remote[v] # "none" <=> remote'[v] # "none"
              \/ OwesChild(job'[t], w, v)
              \/ OwesFolder(job'[t], w)
              \/ remote[w] # "dir"
                 /\ ~\E s \in Threads : OwesFolder(job[s], w)
              \/ \E s \in Threads \ {t} : OwesFolder(job[s], w)
    PROVE  ListInv'
<1> SUFFICES ASSUME NEW w \in Paths, Trusted(w)'
             PROVE  /\ FolderThere(w)'
                    /\ OwnChildren(w)'
                    /\ \A v \in Kids(w) : ChildRight(w, v)'
  BY DEF ListInv
<1>1. Trusted(w) /\ cache' = cache /\ ListInv /\ StillOwes(t, w)
  BY Parts DEF Trusted
<1>2. /\ ~LateLoad(job[t], w) /\ ~OwesFolder(job[t], w)
      /\ \A v : ~OwesChild(job[t], w, v)
  BY OwesNothing
<1>3. FolderThere(w)'
  <2>1. remote[w] = "dir" => FolderThere(w)'
    BY DEF FolderThere
  <2> QED
    BY <1>1, <1>2, <2>1, KeepFolder
<1>4. OwnChildren(w)'
  BY <1>1, <1>2, KeepOwn
<1>5. ASSUME NEW v \in Kids(w)
      PROVE  ChildRight(w, v)'
  <2>1. v \in Paths
    BY DEF Kids
  <2>2. ASSUME NEW s \in Threads, OwesFolder(job'[s], w)
        PROVE  ChildRight(w, v)'
    BY <2>2 DEF ChildRight, OwesChild
  <2>3. ASSUME NEW s \in Threads \ {t}, OwesFolder(job[s], w)
        PROVE  ChildRight(w, v)'
    BY <1>1, <2>2, <2>3 DEF StillOwes
  <2>4. CASE remote[v] # "none" <=> remote'[v] # "none"
    <3>1. (Shows(cache[w], v) <=> remote[v] # "none") => ChildRight(w, v)'
      BY <1>1, <2>4 DEF ChildRight
    <3> QED
      BY <1>1, <1>2, <2>1, <3>1, KeepChild
  <2>5. CASE OwesChild(job'[t], w, v)
    BY <2>5 DEF ChildRight
  <2>6. CASE remote[w] # "dir" /\ ~\E s \in Threads : OwesFolder(job[s], w)
    <3>1. FolderThere(w)
      BY <1>1 DEF ListInv
    <3> QED
      BY <2>6, <3>1 DEF FolderThere
  <2> QED
    BY <2>1, <2>2, <2>3, <2>4, <2>5, <2>6
<1> QED
  BY <1>3, <1>4, <1>5

LEMMA CreateOnServerInv ==
    ASSUME OpsInv, NEW t \in Threads, CreateOnServer(t)
    PROVE  OpsInv'
<1>1. PICK u \in Paths \ {<<>>}, kind \in {"file", "dir"} :
         /\ remote[Parent(u)] = "dir"
         /\ kind = "dir" => Len(u) < Depth
         /\ remote[u] = "none" \/ (kind = "file" /\ remote[u] = "file")
         /\ remote' = [remote EXCEPT ![u] = kind]
         /\ Starts(t, [Job("create", "done", u) EXCEPT !.kind = kind,
                                                       !.existed = remote[u] # "none"],
                   IF remote[u] = "none" THEN {u} ELSE {})
  BY DEF CreateOnServer
<1> DEFINE o == Job("create", "done", u)
           existed == remote[u] # "none"
           j == [o EXCEPT !.kind = kind, !.existed = existed]
           xs == IF remote[u] = "none" THEN {u} ELSE {}
<1>2. o \in Jobs /\ o.what = "create" /\ o.at = "done" /\ o.uri = u /\ ~o.on
  BY JobFields DEF Ats
<1>3. existed \in BOOLEAN /\ kind \in Kinds
  BY DEF Kinds
<1> HIDE DEF o, existed
<1>4. /\ j \in Jobs /\ j.what = "create" /\ j.at = "done" /\ j.uri = u /\ ~j.on
      /\ j.kind = kind /\ j.existed = existed
  BY <1>2, <1>3 DEF Jobs
<1> HIDE DEF j
<1>5. job' = [Overtaken(job, xs) EXCEPT ![t] = j]
  BY <1>1 DEF Starts, j, o, existed
<1>6. remote' \in Trees
  BY <1>1, Parts, TreeCreated
<1>7. remote'[u] = kind /\ \A v \in Paths \ {u} : remote'[v] = remote[v]
  BY <1>1, Parts
<1>8. JobOK(j) /\ Heard(j, remote')
  BY <1>1, <1>4, <1>7 DEF JobOK, Heard
<1>9. /\ xs \in SUBSET Paths
      /\ \A v \in Paths : remote'[v] # remote[v] => \E x \in xs : IsPrefix(x, v)
  BY <1>1, <1>7, PrefixOrder
<1>10. changes' \in 0..Changes /\ UNCHANGED <<cache, excused>>
  BY Parts, Counting DEF CreateOnServer
<1>11. TypeInv' /\ HeardInv' /\ job'[t] = j /\ \A w \in Paths : StillOwes(t, w)
  <2> HIDE DEF xs
  <2> QED
    BY <1>4, <1>5, <1>6, <1>8, <1>9, <1>10, ServerJobs
<1>12. job[t].at = "idle"
  BY Parts DEF CreateOnServer, Free, JobOK
<1>13. ListInv'
  <2>1. \A w \in Paths : remote[w] = "dir" => remote'[w] = "dir"
    BY <1>1, <1>7
  <2>2. ASSUME NEW v \in Paths, NEW w \in Paths
        PROVE  \/ remote[v] # "none" <=> remote'[v] # "none"
               \/ OwesChild(job'[t], w, v)
    <3>1. CASE v # u
      BY <1>7, <3>1
    <3>2. CASE v = u /\ existed
      BY <1>1, <1>7, <3>2 DEF existed
    <3>3. CASE v = u /\ ~existed
      BY <1>4, <1>11, <3>3 DEF OwesChild
    <3> QED
      BY <3>1, <3>2, <3>3
  <2> QED
    BY <1>10, <1>11, <1>12, <2>1, <2>2, ServerListings
<1> QED
  BY <1>11, <1>13 DEF OpsInv

LEMMA RenameOnServerInv ==
    ASSUME OpsInv, NEW t \in Threads, RenameOnServer(t)
    PROVE  OpsInv'
<1>1. PICK u \in Paths \ {<<>>}, to \in Paths \ {<<>>} :
         /\ CanRename(u, to)
         /\ remote' = Renamed(u, to)
         /\ Starts(t, [Job("rename", "done", u) EXCEPT !.to = to], {u, to})
  BY DEF RenameOnServer, CanRename
<1> DEFINE o == Job("rename", "done", u)
           j == [o EXCEPT !.to = to]
<1>2. o \in Jobs /\ o.what = "rename" /\ o.at = "done" /\ o.uri = u /\ ~o.on
  BY JobFields DEF Ats
<1> HIDE DEF o
<1>3. /\ j \in Jobs /\ j.what = "rename" /\ j.at = "done" /\ j.uri = u /\ j.to = to /\ ~j.on
  BY <1>2 DEF Jobs
<1> HIDE DEF j
<1>4. job' = [Overtaken(job, {u, to}) EXCEPT ![t] = j]
  BY <1>1 DEF Starts, j, o
<1>5. /\ remote' \in Trees
      /\ remote'[u] = "none" /\ remote'[to] # "none"
      /\ \A p \in Paths : remote'[p] # remote[p] => IsPrefix(u, p) \/ IsPrefix(to, p)
      /\ \A p \in Paths : remote[p] = "dir" /\ ~IsPrefix(u, p) => remote'[p] = "dir"
  BY <1>1, Parts, TreeRenamed
<1>6. JobOK(j) /\ Heard(j, remote')
  BY <1>3, <1>5 DEF JobOK, Heard
<1>7. changes' \in 0..Changes /\ UNCHANGED <<cache, excused>>
  BY Parts, Counting DEF RenameOnServer
<1>8. TypeInv' /\ HeardInv' /\ job'[t] = j /\ \A w \in Paths : StillOwes(t, w)
  <2> DEFINE xs == {u, to}
  <2>1. /\ xs \in SUBSET Paths
        /\ \A p \in Paths : remote'[p] # remote[p] => \E x \in xs : IsPrefix(x, p)
    BY <1>5
  <2>2. job' = [Overtaken(job, xs) EXCEPT ![t] = j]
    BY <1>4
  <2>3. remote' \in Trees
    BY <1>5
  <2> HIDE DEF xs
  <2> QED
    BY <1>3, <1>6, <1>7, <2>1, <2>2, <2>3, ServerJobs
<1>9. job[t].at = "idle"
  BY Parts DEF RenameOnServer, Free, JobOK
<1>10. \A w \in Under(u) : OwesFolder(job'[t], w)
  BY <1>3, <1>8 DEF OwesFolder
<1>11. ListInv'
  <2>1. \A w \in Paths : remote[w] = "dir" => remote'[w] = "dir" \/ OwesFolder(job'[t], w)
    BY <1>5, <1>10 DEF Under
  <2>2. ASSUME NEW v \in Paths, NEW w \in Paths, v \in Kids(w)
        PROVE  \/ remote[v] # "none" <=> remote'[v] # "none"
               \/ OwesChild(job'[t], w, v)
               \/ OwesFolder(job'[t], w)
               \/ remote[w] # "dir" /\ ~\E s \in Threads : OwesFolder(job[s], w)
               \/ \E s \in Threads \ {t} : OwesFolder(job[s], w)
    <3>1. CASE v \in {u, to}
      BY <1>3, <1>8, <3>1 DEF OwesChild
    <3>2. CASE IsPrefix(u, v) /\ v # u
      <4>1. IsPrefix(u, w)
        BY <2>2, <3>2, AboveParent DEF Kids
      <4> QED
        BY <1>10, <4>1 DEF Under
    <3>3. CASE IsPrefix(to, v) /\ v # to
      <4>1. IsPrefix(to, w)
        BY <2>2, <3>3, AboveParent DEF Kids
      <4>2. remote[w] # "dir"
        <5>1. remote[to] = "none"
          BY <1>1 DEF CanRename
        <5>2. w = to \/ w \in Under(to) \ {to}
          BY <4>1 DEF Under
        <5>3. remote \in Trees
          BY Parts
        <5> QED
          BY <5>1, <5>2, <5>3 DEF Trees
      <4>3. ~OwesFolder(job[t], w)
        BY <1>9, OwesNothing
      <4> QED
        BY <4>2, <4>3
    <3>4. CASE ~IsPrefix(u, v) /\ ~IsPrefix(to, v)
      BY <1>5, <3>4
    <3> QED
      BY <3>1, <3>2, <3>3, <3>4
  <2> QED
    BY <1>7, <1>8, <1>9, <2>1, <2>2, ServerListings
<1> QED
  BY <1>8, <1>11 DEF OpsInv

LEMMA DeleteOnServerInv ==
    ASSUME OpsInv, NEW t \in Threads, DeleteOnServer(t)
    PROVE  OpsInv'
<1> DEFINE u == job[t].to
<1>1. job[t].what = "delete" /\ job[t].at \in {"unlink", "rmdir"}
  BY DEF DeleteOnServer
<1>2. CASE NotFound(t)
  BY <1>1, <1>2, NotFoundInv
<1>3. CASE ~NotFound(t)
  <2> DEFINE o == job[t]
             j == [o EXCEPT !.at = "done", !.late = FALSE]
  <2>1. o \in Jobs /\ o.what = "delete" /\ ~o.on /\ u \in Paths /\ o.to = u
    BY <1>1, Parts DEF Jobs, JobOK
  <2>2. job' = [Overtaken(job, {u}) EXCEPT ![t] = j]
    BY <1>3 DEF DeleteOnServer
  <2>3. /\ remote[u] = "file" \/ (u # <<>> /\ OnServer(u) = {})
        /\ remote' = [remote EXCEPT ![u] = "none"]
        /\ UNCHANGED <<cache, excused, changes>>
    BY <1>3 DEF DeleteOnServer
  <2>4. u # <<>>
    BY <2>3, Parts DEF Trees
  <2>5. remote' \in Trees
    <3>1. remote[u] # "dir" \/ OnServer(u) = {}
      BY <2>3
    <3> QED
      BY <2>1, <2>3, <2>4, <3>1, Parts, TreeDeleted
  <2>6. remote'[u] = "none" /\ \A v \in Paths \ {u} : remote'[v] = remote[v]
    BY <2>1, <2>3, Parts
  <2> HIDE DEF o, u
  <2>7. j \in Jobs /\ j.what = "delete" /\ j.at = "done" /\ j.to = u /\ ~j.on
    BY <2>1 DEF Jobs, Ats
  <2> HIDE DEF j
  <2>8. JobOK(j) /\ Heard(j, remote')
    BY <2>6, <2>7 DEF JobOK, Heard
  <2>9. \A v \in Paths : remote'[v] # remote[v] => \E x \in {u} : IsPrefix(x, v)
    BY <2>1, <2>6, PrefixOrder
  <2>10. changes' \in 0..Changes /\ UNCHANGED <<cache, excused>>
    BY <2>3, Parts
  <2>11. TypeInv' /\ HeardInv' /\ job'[t] = j /\ \A w \in Paths : StillOwes(t, w)
    BY <2>1, <2>2, <2>5, <2>7, <2>8, <2>9, <2>10, ServerJobs
  <2>12. ListInv'
    <3>1. \A w \in Paths : remote[w] = "dir" => remote'[w] = "dir" \/ OwesFolder(job'[t], w)
      BY <2>6, <2>7, <2>11 DEF OwesFolder
    <3>2. \A v \in Paths, w \in Paths : \/ remote[v] # "none" <=> remote'[v] # "none"
                                        \/ OwesChild(job'[t], w, v)
      BY <2>6, <2>7, <2>11 DEF OwesChild
    <3> QED
      BY <1>1, <2>10, <2>11, <3>1, <3>2, ServerListings
  <2> QED
    BY <2>11, <2>12 DEF OpsInv
<1> QED
  BY <1>2, <1>3

LEMMA OtherMachineInv ==
    ASSUME OpsInv, OtherMachine
    PROVE  OpsInv'
<1>1. PICK u \in Paths \ {<<>>}, kind \in Kinds :
         /\ (remote[u] = "none") # (kind = "none")
         /\ remote' = [remote EXCEPT ![u] = kind]
         /\ remote' \in Trees
         /\ job' = Overtaken(job, {u})
         /\ UNCHANGED cache
         /\ Excuse({Parent(u), u})
  BY DEF OtherMachine
<1>2. /\ job \in [Threads -> Jobs] /\ ListInv
      /\ \A s \in Threads : job[s].on => cache[job[s].uri].kind = "dir"
      /\ \A s \in Threads : JobOK(job[s]) /\ Heard(job[s], remote)
  BY Parts DEF HeardInv
<1>3. remote'[u] = kind /\ \A v \in Paths \ {u} : remote'[v] = remote[v]
  BY <1>1, Parts
<1>4. ASSUME NEW s \in Threads
      PROVE  /\ job'[s] \in Jobs /\ JobOK(job'[s]) /\ Heard(job'[s], remote')
             /\ Later(job[s], job'[s])
             /\ job'[s].on => cache'[job'[s].uri].kind = "dir"
  <2> DEFINE a == job[s]
             b == job'[s]
             q == remote'
             xs == {u}
  <2>1. xs \in SUBSET Paths /\ \A v \in Paths : q[v] # remote[v] => \E x \in xs : IsPrefix(x, v)
    BY <1>3, PrefixOrder
  <2>2. a \in Jobs /\ JobOK(a) /\ Heard(a, remote) /\ (a.on => cache[a.uri].kind = "dir")
    BY <1>2
  <2>3. /\ b \in Jobs /\ Later(a, b) /\ b.on = a.on
        /\ (\E x \in xs : About(a, x)) => b.late
    BY <1>1, <1>2, <2>1, OvertakenLater
  <2> HIDE DEF a, b, q, xs
  <2>4. Heard(b, q)
    BY <2>1, <2>2, <2>3, HeardOver
  <2>5. JobOK(b) /\ b.uri = a.uri
    BY <2>2, <2>3, LaterOK DEF Later
  <2> QED
    BY <1>1, <2>2, <2>3, <2>4, <2>5 DEF a, b, q
<1>5. /\ excused' \subseteq {w \in Paths : cache'[w].listed}
      /\ \A w \in Paths : Trusted(w)' => w \notin excused /\ w \notin {Parent(u), u}
  <2>1. {Parent(u), u} \in SUBSET Paths /\ excused \subseteq Paths
    BY Parts, ParentOf
  <2> QED
    BY <1>1, <2>1, ExcuseFields
<1>6. TypeInv'
  <2>1. job' \in [Threads -> Jobs]
    <3>1. job' = [s \in Threads |-> job'[s]]
      BY <1>1 DEF Overtaken
    <3> QED
      BY <1>4, <3>1
  <2>2. changes' \in 0..Changes
    BY Parts, Counting DEF OtherMachine
  <2>3. TypeOK'
    BY <1>1, <1>4, <1>5, <2>1, <2>2, Parts DEF TypeOK
  <2>4. \A v \in Paths : DocOK(cache'[v])
    BY <1>1, Parts
  <2> QED
    BY <1>4, <2>3, <2>4 DEF TypeInv
<1>7. HeardInv'
  BY <1>4 DEF HeardInv
<1>8. ListInv'
  <2> SUFFICES ASSUME NEW w \in Paths, Trusted(w)'
               PROVE  /\ FolderThere(w)'
                      /\ OwnChildren(w)'
                      /\ \A v \in Kids(w) : ChildRight(w, v)'
    BY DEF ListInv
  <2>1. w # Parent(u) /\ w # u /\ Trusted(w) /\ cache' = cache
    BY <1>1, <1>5 DEF Trusted
  <2>2. ASSUME NEW s \in Threads
        PROVE  /\ LateLoad(job[s], w) => LateLoad(job'[s], w)
               /\ OwesFolder(job[s], w) => OwesFolder(job'[s], w)
               /\ \A v : OwesChild(job[s], w, v) => OwesChild(job'[s], w, v)
    <3>1. Later(job[s], job'[s])
      BY <1>4
    <3> QED
      BY <3>1, LaterOwes
  <2>3. /\ FolderThere(w)
        /\ OwnChildren(w)
        /\ \A v \in Kids(w) : ChildRight(w, v)
    BY <1>2, <2>1 DEF ListInv
  <2>4. FolderThere(w)'
    BY <1>3, <2>1, <2>2, <2>3 DEF FolderThere
  <2>5. OwnChildren(w)'
    BY <2>1, <2>2, <2>3 DEF OwnChildren
  <2>6. ASSUME NEW v \in Kids(w)
        PROVE  ChildRight(w, v)'
    <3>1. v \in Paths /\ v # u
      BY <2>1 DEF Kids
    <3> QED
      BY <1>3, <2>1, <2>2, <2>3, <3>1 DEF ChildRight
  <2> QED
    BY <2>4, <2>5, <2>6
<1> QED
  BY <1>6, <1>7, <1>8 DEF OpsInv

-------------------------------------------------------------------------------
(* The cache changes. *)

LEMMA DisplacedAll ==
    ASSUME job \in [Threads -> Jobs], NEW us, NEW jobs, jobs = Displaced(job, us)
    PROVE  /\ jobs \in [Threads -> Jobs]
           /\ \A s \in Threads : /\ Later(job[s], jobs[s])
                                 /\ jobs[s].uri = job[s].uri
                                 /\ jobs[s].on => job[s].on /\ job[s].uri \notin us
<1>1. jobs = [s \in Threads |-> jobs[s]]
  BY DEF Displaced
<1>2. \A s \in Threads : /\ jobs[s] \in Jobs
                         /\ Later(job[s], jobs[s])
                         /\ jobs[s].on => job[s].on /\ job[s].uri \notin us
  BY DisplacedLater
<1>3. \A s \in Threads : jobs[s].uri = job[s].uri
  BY <1>2 DEF Later
<1> QED
  BY <1>1, <1>2, <1>3

(* After t has changed the cache, and its job is j: the types, what the    *)
(* jobs have heard, and what those of the others owe.                      *)
LEMMA CacheJobs ==
    ASSUME OpsInv, NEW t \in Threads, NEW jobs \in [Threads -> Jobs], NEW j \in Jobs,
           \A s \in Threads : Later(job[s], jobs[s]),
           job' = [jobs EXCEPT ![t] = j],
           JobOK(j), j.on => cache'[j.uri].kind = "dir", Heard(j, remote),
           \A s \in Threads \ {t} : jobs[s].on => cache'[jobs[s].uri].kind = "dir",
           cache' \in [Paths -> Docs], \A p \in Paths : DocOK(cache'[p]),
           excused' \subseteq {w \in Paths : cache'[w].listed},
           UNCHANGED <<remote, changes>>
    PROVE  /\ TypeInv' /\ HeardInv'
           /\ job'[t] = j
           /\ \A w \in Paths : StillOwes(t, w)
<1>1. /\ job' \in [Threads -> Jobs] /\ job'[t] = j
      /\ \A s \in Threads \ {t} : job'[s] = jobs[s]
  OBVIOUS
<1>2. \A s \in Threads : JobOK(job[s]) /\ Heard(job[s], remote)
  BY Parts DEF HeardInv
<1>3. ASSUME NEW s \in Threads
      PROVE  /\ JobOK(job'[s])
             /\ Heard(job'[s], remote)
             /\ job'[s].on => cache'[job'[s].uri].kind = "dir"
  <2>1. CASE s = t
    BY <1>1, <2>1
  <2>2. CASE s # t
    <3>1. job'[s] = jobs[s] /\ Later(job[s], jobs[s])
      BY <1>1, <2>2
    <3>2. JobOK(jobs[s]) /\ Heard(jobs[s], remote)
      BY <1>2, <3>1, LaterOK, LaterHeard
    <3> QED
      BY <2>2, <3>1, <3>2
  <2> QED
    BY <2>1, <2>2
<1>4. TypeInv'
  <2>1. TypeOK'
    BY <1>1, <1>3, Parts DEF TypeOK
  <2> QED
    BY <1>3, <2>1 DEF TypeInv
<1>5. HeardInv'
  BY <1>3 DEF HeardInv
<1>6. ASSUME NEW w \in Paths
      PROVE  StillOwes(t, w)
  <2>1. ASSUME NEW s \in Threads \ {t}
        PROVE  /\ LateLoad(job[s], w) => LateLoad(job'[s], w)
               /\ OwesFolder(job[s], w) => OwesFolder(job'[s], w)
               /\ \A v \in Paths : OwesChild(job[s], w, v) => OwesChild(job'[s], w, v)
    <3>1. Later(job[s], job'[s])
      BY <1>1
    <3> QED
      BY <3>1, LaterOwes
  <2> QED
    BY <2>1 DEF StillOwes
<1> QED
  BY <1>1, <1>4, <1>5, <1>6

(* A job that ends. *)
LEMMA NoJobOK ==
    /\ NoJob \in Jobs /\ JobOK(NoJob) /\ ~NoJob.on
    /\ \A r : Heard(NoJob, r)
BY NoJobFields DEF JobOK, Heard

LEMMA SpoiledPaths ==
    ASSUME NEW t \in Threads, job[t] \in Jobs
    PROVE  Spoiled(t) \in SUBSET Paths
<1>1. Parent(job[t].uri) \in Paths /\ Parent(job[t].to) \in Paths
  BY ParentOf DEF Jobs
<1> QED
  BY <1>1 DEF Spoiled

(* A listing that can be trusted after t has changed the cache, when t     *)
(* owes nothing more: only the children whose place has changed matter.    *)
LEMMA CacheListing ==
    ASSUME OpsInv, NEW t \in Threads, NEW w \in Paths, Trusted(w), StillOwes(t, w),
           remote' = remote, ~OwesFolder(job[t], w),
           \A v \in Paths : Shows(cache'[w], v) => Shows(cache[w], v) \/ v \in Kids(w),
           \A v \in Kids(w) :
              \/ /\ Shows(cache'[w], v) <=> Shows(cache[w], v)
                 /\ ~OwesChild(job[t], w, v)
              \/ Shows(cache'[w], v) <=> remote[v] # "none"
    PROVE  /\ FolderThere(w)'
           /\ OwnChildren(w)'
           /\ \A v \in Kids(w) : ChildRight(w, v)'
<1>1. ListInv
  BY Parts
<1>2. FolderThere(w)'
  <2>1. remote[w] = "dir" => FolderThere(w)'
    BY DEF FolderThere
  <2> QED
    BY <1>1, <2>1, KeepFolder
<1>3. OwnChildren(w)'
  <2>1. ~LateLoad(job[t], w)
    BY DEF OwesFolder
  <2> QED
    BY <1>1, <2>1, KeepOwn
<1>4. ASSUME NEW v \in Kids(w)
      PROVE  ChildRight(w, v)'
  <2>1. CASE Shows(cache'[w], v) <=> remote[v] # "none"
    BY <2>1 DEF ChildRight
  <2>2. CASE /\ Shows(cache'[w], v) <=> Shows(cache[w], v)
             /\ ~OwesChild(job[t], w, v)
    <3>1. (Shows(cache[w], v) <=> remote[v] # "none") => ChildRight(w, v)'
      BY <2>2 DEF ChildRight
    <3> QED
      BY <1>1, <2>2, <3>1, KeepChild
  <2> QED
    BY <2>1, <2>2
<1> QED
  BY <1>2, <1>3, <1>4

(* A new document gets into the cache, with nobody loading it. *)
LEMMA PutNewInv ==
    ASSUME OpsInv, NEW t \in Threads, NEW jobs \in [Threads -> Jobs],
           \A s \in Threads : Later(job[s], jobs[s]) /\ jobs[s].uri = job[s].uri,
           \A s \in Threads : jobs[s].on => jobs[s].uri # job[t].uri,
           job' = [jobs EXCEPT ![t] = NoJob],
           job[t].what \in {"create", "query"}, job[t].at = "done",
           cache' = Put(cache, job[t].uri, NewDoc(job[t].kind)),
           Excuse(Spoiled(t)), UNCHANGED <<remote, changes>>
    PROVE  OpsInv'
<1> DEFINE u == job[t].uri
           d == NewDoc(job[t].kind)
<1>1. /\ job[t] \in Jobs /\ u \in Paths /\ Parent(u) \in Paths
      /\ job[t].kind \in Kinds /\ JobOK(job[t]) /\ Heard(job[t], remote)
  BY Parts, ParentOf DEF HeardInv, Jobs
<1>2. d \in Docs /\ DocOK(d) /\ d.kind \in {"file", "dir"} /\ d.listed = FALSE
  <2> DEFINE kind == job[t].kind
  <2>1. kind \in {"file", "dir"} /\ kind \in Kinds
    BY <1>1 DEF JobOK, Kinds
  <2>2. d = NewDoc(kind)
    OBVIOUS
  <2> HIDE DEF kind, d
  <2>3. d \in Docs /\ DocOK(d) /\ d.kind = kind /\ d.listed = FALSE
    BY <2>1, <2>2, NewDocFields
  <2> QED
    BY <2>1, <2>3
<1> HIDE DEF d
<1>3. cache' = Put(cache, u, d)
  BY DEF d
<1> HIDE DEF u
<1>4. /\ cache' \in [Paths -> Docs] /\ cache'[u] = d
      /\ \A p \in Paths : DocOK(cache'[p])
      /\ \A p \in Paths \ {u} :
            /\ cache'[p].kind = cache[p].kind /\ cache'[p].listed = cache[p].listed
            /\ \A v : Shows(cache'[p], v) <=>
                         \/ Shows(cache[p], v)
                         \/ p = Parent(u) /\ cache[p].listed /\ v = u
  <2>1. /\ cache \in [Paths -> Docs]
        /\ \A p \in Paths : DocOK(cache[p])
    BY Parts
  <2>2. IsPut(cache, u, d, cache')
    BY <1>1, <1>2, <1>3, <2>1, PutFields
  <2> QED
    BY <2>2 DEF IsPut
<1>5. /\ excused' \subseteq {w \in Paths : cache'[w].listed}
      /\ \A w \in Paths : Trusted(w)' => w \notin excused /\ w \notin Spoiled(t)
  BY <1>1, Parts, SpoiledPaths, ExcuseFields
<1>6. \A s \in Threads \ {t} : jobs[s].on => cache'[jobs[s].uri].kind = "dir"
  <2> SUFFICES ASSUME NEW s \in Threads, jobs[s].on
               PROVE  cache'[jobs[s].uri].kind = "dir"
    OBVIOUS
  <2>1. job[s].on /\ jobs[s].uri = job[s].uri /\ job[s].uri # u
    BY DEF Later, u
  <2>2. cache[job[s].uri].kind = "dir" /\ job[s].uri \in Paths
    BY <2>1, Parts DEF Jobs
  <2> QED
    BY <1>4, <2>1, <2>2
<1>7. TypeInv' /\ HeardInv' /\ \A w \in Paths : StillOwes(t, w)
  BY <1>4, <1>5, <1>6, NoJobOK, CacheJobs
<1>8. ListInv'
  <2> SUFFICES ASSUME NEW w \in Paths, Trusted(w)'
               PROVE  /\ FolderThere(w)'
                      /\ OwnChildren(w)'
                      /\ \A v \in Kids(w) : ChildRight(w, v)'
    BY DEF ListInv
  <2>1. w # u /\ w \notin excused /\ w \notin Spoiled(t) /\ cache'[w].listed
    BY <1>2, <1>4, <1>5 DEF Trusted
  <2>2. Trusted(w)
    BY <1>4, <2>1 DEF Trusted
  <2>3. job[t].late => w # Parent(u)
    BY <2>1 DEF Spoiled, u
  <2>4. ~OwesFolder(job[t], w)
    BY DEF OwesFolder, LateLoad
  <2>5. ASSUME NEW v \in Paths, Shows(cache'[w], v)
        PROVE  Shows(cache[w], v) \/ v \in Kids(w)
    <3>1. w = Parent(u) /\ v = u => u # <<>>
      BY <2>1 DEF Parent
    <3>2. Shows(cache[w], v) \/ (w = Parent(u) /\ v = u)
      BY <1>4, <2>1, <2>5
    <3> QED
      BY <1>1, <3>1, <3>2 DEF Kids
  <2>6. ASSUME NEW v \in Kids(w)
        PROVE  \/ /\ Shows(cache'[w], v) <=> Shows(cache[w], v)
                  /\ ~OwesChild(job[t], w, v)
               \/ Shows(cache'[w], v) <=> remote[v] # "none"
    <3>1. CASE v = u
      <4>1. w = Parent(u)
        BY <3>1 DEF Kids
      <4>2. remote[u] # "none"
        BY <1>1, <2>3, <4>1 DEF Heard, u
      <4>3. Shows(cache'[w], v)
        BY <1>4, <2>1, <2>2, <3>1, <4>1 DEF Trusted
      <4> QED
        BY <3>1, <4>2, <4>3
    <3>2. CASE v # u
      <4>1. Shows(cache'[w], v) <=> Shows(cache[w], v)
        BY <1>4, <2>1, <3>2
      <4>2. ~OwesChild(job[t], w, v)
        BY <2>1, <2>4, <3>2 DEF OwesChild, Spoiled, u
      <4> QED
        BY <4>1, <4>2
    <3> QED
      BY <3>1, <3>2
  <2>7. StillOwes(t, w)
    BY <1>7
  <2> QED
    BY <2>2, <2>4, <2>5, <2>6, <2>7, CacheListing
<1> QED
  BY <1>7, <1>8 DEF OpsInv

LEMMA QueryInCacheInv ==
    ASSUME OpsInv, NEW t \in Threads, QueryInCache(t)
    PROVE  OpsInv'
<1> DEFINE jobs == Displaced(job, {job[t].uri})
<1>1. /\ job[t].what = "query" /\ job[t].at = "done"
      /\ cache' = Put(cache, job[t].uri, NewDoc(job[t].kind))
      /\ Excuse(Spoiled(t)) /\ UNCHANGED <<remote, changes>>
      /\ job' = [jobs EXCEPT ![t] = NoJob]
  BY DEF QueryInCache, Is, Ends
<1>2. /\ jobs \in [Threads -> Jobs]
      /\ \A s \in Threads : Later(job[s], jobs[s]) /\ jobs[s].uri = job[s].uri
      /\ \A s \in Threads : jobs[s].on => jobs[s].uri # job[t].uri
  BY Parts, DisplacedAll
<1> HIDE DEF jobs
<1> QED
  BY <1>1, <1>2, PutNewInv

LEMMA CreateInCacheInv ==
    ASSUME OpsInv, NEW t \in Threads, CreateInCache(t)
    PROVE  OpsInv'
<1> DEFINE u == job[t].uri
<1>1. /\ job[t].what = "create" /\ job[t].at = "done"
      /\ job' = [job EXCEPT ![t] = NoJob]
      /\ UNCHANGED <<remote, changes>>
  BY DEF CreateInCache, Is, Ends
<1>2. /\ job \in [Threads -> Jobs] /\ cache \in [Paths -> Docs]
      /\ \A s \in Threads : job[s].on => cache[job[s].uri].kind = "dir"
      /\ \A p \in Paths : DocOK(cache[p])
      /\ job[t] \in Jobs /\ u \in Paths
  BY Parts DEF Jobs
<1>3. \A s \in Threads : Later(job[s], job[s])
  BY DEF Later
<1>4. CASE ~Cached(u)
  <2>1. cache' = Put(cache, u, NewDoc(job[t].kind)) /\ Excuse(Spoiled(t))
    BY <1>4 DEF CreateInCache
  <2>2. \A s \in Threads : job[s].on => job[s].uri # u
    BY <1>2, <1>4, NoDocFields DEF Cached
  <2> QED
    BY <1>1, <1>2, <1>3, <2>1, <2>2, PutNewInv
<1>5. CASE Cached(u)
  <2> DEFINE us == Spoiled(t) \cup (IF job[t].existed THEN {} ELSE {Parent(u)})
             d == cache[u]
             n == [d EXCEPT !.listed = FALSE, !.children = {}]
  <2>1. cache' = [cache EXCEPT ![u].listed = FALSE, ![u].children = {}] /\ Excuse(us)
    BY <1>5 DEF CreateInCache
  <2>2. cache' = [cache EXCEPT ![u] = n]
    BY <1>2, <2>1
  <2>3. d \in Docs
    BY <1>2
  <2> HIDE DEF u, d
  <2>4. n \in Docs /\ n.kind = d.kind /\ n.listed = FALSE /\ n.children = {}
    BY <2>3 DEF Docs
  <2>5. DocOK(n)
    BY <2>4 DEF DocOK
  <2> HIDE DEF n
  <2>6. /\ cache' \in [Paths -> Docs] /\ cache'[u] = n
        /\ \A p \in Paths \ {u} : cache'[p] = cache[p]
        /\ \A p \in Paths : DocOK(cache'[p])
    BY <1>2, <2>2, <2>4, <2>5
  <2>7. \A p \in Paths : cache'[p].kind = cache[p].kind
    BY <2>4, <2>6 DEF d
  <2>8. us \in SUBSET Paths
    BY <1>2, SpoiledPaths, ParentOf
  <2> HIDE DEF us
  <2>9. /\ excused' \subseteq {w \in Paths : cache'[w].listed}
        /\ \A w \in Paths : Trusted(w)' => w \notin excused /\ w \notin us
    BY <2>1, <2>8, Parts, ExcuseFields
  <2>10. \A s \in Threads \ {t} : job[s].on => cache'[job[s].uri].kind = "dir"
    BY <1>2, <2>7 DEF Jobs
  <2>11. TypeInv' /\ HeardInv' /\ \A w \in Paths : StillOwes(t, w)
    BY <1>1, <1>2, <1>3, <2>6, <2>9, <2>10, NoJobOK, CacheJobs
  <2>12. ListInv'
    <3> SUFFICES ASSUME NEW w \in Paths, Trusted(w)'
                 PROVE  /\ FolderThere(w)'
                        /\ OwnChildren(w)'
                        /\ \A v \in Kids(w) : ChildRight(w, v)'
      BY DEF ListInv
    <3>1. w # u /\ w \notin excused /\ w \notin us
      BY <2>4, <2>6, <2>9 DEF Trusted
    <3>2. cache'[w] = cache[w]
      BY <2>6, <3>1
    <3>3. Trusted(w)
      BY <3>1, <3>2 DEF Trusted
    <3>4. ~OwesFolder(job[t], w)
      BY <1>1 DEF OwesFolder, LateLoad
    <3>5. ASSUME NEW v \in Kids(w)
          PROVE  ~OwesChild(job[t], w, v)
      <4>1. Parent(v) = w
        BY DEF Kids
      <4>2. ~job[t].late \/ w \notin {Parent(job[t].uri), Parent(job[t].to)}
        BY <3>1 DEF us, Spoiled
      <4>3. job[t].existed \/ v # job[t].uri
        BY <3>1, <4>1 DEF us, u
      <4> QED
        BY <1>1, <3>4, <4>2, <4>3 DEF OwesChild
    <3>6. StillOwes(t, w)
      BY <2>11
    <3> QED
      BY <1>1, <3>2, <3>3, <3>4, <3>5, <3>6, CacheListing
  <2> QED
    BY <2>11, <2>12 DEF OpsInv
<1> QED
  BY <1>4, <1>5

(* A document leaves the cache, because it is gone or its folder excused.  *)
LEMMA DropInv ==
    ASSUME OpsInv, NEW t \in Threads, NEW x \in Paths, NEW us \in SUBSET Paths,
           NEW j \in Jobs, NEW jobs, jobs = Displaced(job, {x}),
           job[t].what = "delete", job[t].at \in {"done", "notFound"},
           job[t].at = "done" => x = job[t].to,
           remote[x] = "none" \/ Parent(x) \in us,
           JobOK(j), ~j.on, Heard(j, remote),
           job' = [jobs EXCEPT ![t] = j], cache' = Drop(cache, x), Excuse(us),
           Spoiled(t) \subseteq us, UNCHANGED <<remote, changes>>
    PROVE  OpsInv'
<1>1. /\ cache \in [Paths -> Docs] /\ job \in [Threads -> Jobs]
      /\ \A p \in Paths : DocOK(cache[p])
      /\ \A s \in Threads : job[s].on => cache[job[s].uri].kind = "dir"
  BY Parts
<1>2. IsDrop(cache, x, cache')
  BY <1>1, DropFields
<1>3. /\ cache' \in [Paths -> Docs] /\ cache'[x] = NoDoc
      /\ \A p \in Paths : DocOK(cache'[p])
      /\ \A p \in Paths \ {x} :
            /\ cache'[p].kind = cache[p].kind /\ cache'[p].listed = cache[p].listed
            /\ \A v : Shows(cache'[p], v) <=> Shows(cache[p], v) /\ ~(p = Parent(x) /\ v = x)
  BY <1>2 DEF IsDrop
<1>4. /\ excused' \subseteq {w \in Paths : cache'[w].listed}
      /\ \A w \in Paths : Trusted(w)' => w \notin excused /\ w \notin us
  BY Parts, ExcuseFields
<1>5. /\ jobs \in [Threads -> Jobs]
      /\ \A s \in Threads : /\ Later(job[s], jobs[s])
                            /\ jobs[s].uri = job[s].uri
                            /\ jobs[s].on => job[s].on /\ job[s].uri \notin {x}
  BY <1>1, DisplacedAll
<1>6. \A s \in Threads \ {t} : jobs[s].on => cache'[jobs[s].uri].kind = "dir"
  <2> SUFFICES ASSUME NEW s \in Threads, jobs[s].on
               PROVE  cache'[jobs[s].uri].kind = "dir"
    OBVIOUS
  <2>1. job[s].on /\ jobs[s].uri = job[s].uri /\ job[s].uri # x
    BY <1>5
  <2>2. cache[job[s].uri].kind = "dir" /\ job[s].uri \in Paths
    BY <1>1, <2>1 DEF Jobs
  <2> QED
    BY <1>3, <2>1, <2>2
<1>7. TypeInv' /\ HeardInv' /\ \A w \in Paths : StillOwes(t, w)
  BY <1>3, <1>4, <1>5, <1>6, CacheJobs
<1>8. ListInv'
  <2> SUFFICES ASSUME NEW w \in Paths, Trusted(w)'
               PROVE  /\ FolderThere(w)'
                      /\ OwnChildren(w)'
                      /\ \A v \in Kids(w) : ChildRight(w, v)'
    BY DEF ListInv
  <2>1. w # x /\ w \notin excused /\ w \notin us /\ cache'[w].listed
    BY <1>3, <1>4, NoDocFields DEF Trusted
  <2>2. Trusted(w)
    BY <1>3, <2>1 DEF Trusted
  <2>3. ~OwesFolder(job[t], w)
    BY <2>1 DEF OwesFolder, LateLoad
  <2>4. \A v \in Paths : Shows(cache'[w], v) => Shows(cache[w], v)
    BY <1>3, <2>1
  <2>5. ASSUME NEW v \in Kids(w)
        PROVE  \/ /\ Shows(cache'[w], v) <=> Shows(cache[w], v)
                  /\ ~OwesChild(job[t], w, v)
               \/ Shows(cache'[w], v) <=> remote[v] # "none"
    <3>1. CASE v = x
      <4>1. w = Parent(x)
        BY <3>1 DEF Kids
      <4>2. remote[v] = "none"
        BY <2>1, <3>1, <4>1
      <4>3. ~Shows(cache'[w], v)
        BY <1>3, <2>1, <3>1, <4>1
      <4> QED
        BY <4>2, <4>3
    <3>2. CASE v # x
      <4>1. Shows(cache'[w], v) <=> Shows(cache[w], v)
        BY <1>3, <2>1, <3>2
      <4>2. ~job[t].late \/ w \notin {Parent(job[t].uri), Parent(job[t].to)}
        BY <2>1 DEF Spoiled
      <4>3. ~OwesChild(job[t], w, v)
        BY <2>3, <3>2, <4>2 DEF OwesChild
      <4> QED
        BY <4>1, <4>3
    <3> QED
      BY <3>1, <3>2
  <2>6. StillOwes(t, w)
    BY <1>7
  <2> QED
    BY <2>2, <2>3, <2>4, <2>5, <2>6, CacheListing
<1> QED
  BY <1>7, <1>8 DEF OpsInv

LEMMA DeleteInCacheInv ==
    ASSUME OpsInv, NEW t \in Threads, DeleteInCache(t)
    PROVE  OpsInv'
<1> DEFINE x == job[t].to
           us == Spoiled(t)
           jobs == Displaced(job, {x})
<1>1. /\ job[t].what = "delete" /\ job[t].at = "done"
      /\ cache' = Drop(cache, x) /\ Excuse(us) /\ UNCHANGED <<remote, changes>>
  BY DEF DeleteInCache, Is
<1>2. /\ job[t] \in Jobs /\ x \in Paths /\ us \in SUBSET Paths
      /\ JobOK(job[t]) /\ Heard(job[t], remote)
  BY Parts, SpoiledPaths DEF HeardInv, Jobs
<1>3. remote[x] = "none" \/ Parent(x) \in us
  BY <1>1, <1>2 DEF Heard, Spoiled
<1>4. PICK j \in Jobs : JobOK(j) /\ ~j.on /\ Heard(j, remote) /\ job' = [jobs EXCEPT ![t] = j]
  <2>1. CASE job[t].folders = <<>>
    <3>1. job' = [jobs EXCEPT ![t] = NoJob]
      BY <2>1 DEF DeleteInCache, Ends
    <3> QED
      BY <3>1, NoJobOK
  <2>2. CASE job[t].folders # <<>>
    <3>1. PICK j \in GoingOn(t, job[t].folders) : job' = [jobs EXCEPT ![t] = j]
      BY <2>2 DEF DeleteInCache
    <3>2. job[t].folders \in Seq(Frames)
      BY <1>2 DEF Jobs
    <3>3. /\ j \in Jobs
          /\ j.at \in {"rmdir", "enter", "unlink"}
          /\ j.what = "delete" /\ j.on = job[t].on
      BY <1>1, <1>2, <2>2, <3>2, GoingOnFields
    <3>4. JobOK(j) /\ Heard(j, remote) /\ ~j.on
      BY <1>1, <1>2, <3>3 DEF JobOK, Heard
    <3> QED
      BY <3>1, <3>3, <3>4
  <2> QED
    BY <2>1, <2>2
<1>5. jobs = Displaced(job, {x}) /\ (job[t].at = "done" => x = job[t].to) /\ Spoiled(t) \subseteq us
  OBVIOUS
<1> HIDE DEF x, us, jobs
<1> QED
  BY <1>1, <1>2, <1>3, <1>4, <1>5, DropInv

LEMMA DeleteCatchesInv ==
    ASSUME OpsInv, NEW t \in Threads, DeleteCatches(t)
    PROVE  OpsInv'
<1> DEFINE x == job[t].uri
           us == Spoiled(t) \cup (IF job[t].to = job[t].uri THEN {} ELSE {Parent(job[t].uri)})
           jobs == Displaced(job, {x})
<1>1. /\ job[t].what = "delete" /\ job[t].at = "notFound"
      /\ cache' = Drop(cache, x) /\ Excuse(us) /\ UNCHANGED <<remote, changes>>
      /\ job' = [jobs EXCEPT ![t] = NoJob]
  BY DEF DeleteCatches, Is, Ends
<1>2. /\ job[t] \in Jobs /\ x \in Paths /\ Heard(job[t], remote)
  BY Parts DEF HeardInv, Jobs
<1>3. us \in SUBSET Paths
  BY <1>2, SpoiledPaths, ParentOf
<1>4. remote[x] = "none" \/ Parent(x) \in us
  BY <1>1, <1>2 DEF Heard, Spoiled
<1>5. jobs = Displaced(job, {x}) /\ Spoiled(t) \subseteq us
  OBVIOUS
<1> HIDE DEF x, us, jobs
<1> QED
  BY <1>1, <1>2, <1>3, <1>4, <1>5, NoJobOK, DropInv

LEMMA LoadSetsInv ==
    ASSUME OpsInv, NEW t \in Threads, LoadSets(t)
    PROVE  OpsInv'
<1> DEFINE o == job[t]
           u == o.uri
           j == [o EXCEPT !.at = "listed"]
<1>1. o.what = "load" /\ o.at = "read" /\ UNCHANGED <<remote, changes>>
  BY DEF LoadSets, Is
<1>2. /\ cache \in [Paths -> Docs] /\ job \in [Threads -> Jobs]
      /\ \A p \in Paths : DocOK(cache[p])
      /\ \A s \in Threads : job[s].on => cache[job[s].uri].kind = "dir"
      /\ excused \subseteq {w \in Paths : cache[w].listed}
  BY Parts
<1>3. job' = [job EXCEPT ![t] = j]
  BY <1>2 DEF LoadSets
<1>4. /\ o \in Jobs /\ u \in Paths /\ o.got \in SUBSET Entries /\ JobOK(o) /\ Heard(o, remote)
      /\ (o.on => cache[u].kind = "dir")
  BY Parts DEF HeardInv, Jobs
<1>5. CASE ~o.on
  <2>1. UNCHANGED <<remote, cache, excused, changes>>
    BY <1>1, <1>5 DEF LoadSets
  <2>2. changes' \in 0..Changes
    BY <2>1, Parts
  <2>3. job[t].at = "read"
    BY <1>1
  <2> HIDE DEF o
  <2>4. /\ j \in Jobs /\ j.what = "load" /\ j.at = "listed" /\ j.uri = u /\ j.got = o.got
        /\ j.on = o.on /\ j.late = o.late
    BY <1>1, <1>4 DEF Jobs, Ats
  <2> HIDE DEF j
  <2>5. JobOK(j) /\ Heard(j, remote)
    BY <1>1, <1>4, <2>4 DEF JobOK, Heard
  <2> QED
    BY <1>3, <1>5, <2>1, <2>2, <2>3, <2>4, <2>5, OwnStep
<1>6. CASE o.on
  <2> DEFINE got == o.got
             d == cache[u]
             n == [d EXCEPT !.listed = TRUE, !.children = got]
  <2>1. /\ cache' = [cache EXCEPT ![u].listed = TRUE, ![u].children = got]
        /\ excused' = excused \ {u}
    BY <1>6 DEF LoadSets
  <2>2. cache' = [cache EXCEPT ![u] = n]
    BY <1>2, <1>4, <2>1
  <2>3. d \in Docs /\ d.kind = "dir"
    BY <1>2, <1>4, <1>6
  <2> HIDE DEF o, u, d, got
  <2>4. got \in SUBSET Entries
    BY <1>4 DEF got
  <2>5. n \in Docs /\ n.kind = "dir" /\ n.listed = TRUE /\ n.children = got
    BY <2>3, <2>4 DEF Docs
  <2>6. DocOK(n)
    BY <2>5 DEF DocOK
  <2> HIDE DEF n
  <2>7. /\ cache' \in [Paths -> Docs] /\ cache'[u] = n
        /\ \A p \in Paths \ {u} : cache'[p] = cache[p]
        /\ \A p \in Paths : DocOK(cache'[p])
    BY <1>2, <1>4, <2>2, <2>5, <2>6
  <2>8. \A p \in Paths : cache'[p].kind = cache[p].kind
    BY <2>3, <2>5, <2>7 DEF d
  <2>9. excused' \subseteq {w \in Paths : cache'[w].listed}
    BY <1>2, <2>1, <2>7
  <2>10. \A s \in Threads : Later(job[s], job[s])
    BY DEF Later
  <2>11. \A s \in Threads \ {t} : job[s].on => cache'[job[s].uri].kind = "dir"
    BY <1>2, <2>8 DEF Jobs
  <2>12. /\ j \in Jobs /\ j.what = "load" /\ j.at = "listed" /\ j.uri = u /\ j.got = got
         /\ j.on = o.on /\ j.late = o.late
    BY <1>1, <1>4 DEF Jobs, Ats, u, got
  <2> HIDE DEF j
  <2>13. JobOK(j) /\ Heard(j, remote) /\ (j.on => cache'[j.uri].kind = "dir")
    BY <1>1, <1>4, <2>5, <2>7, <2>12 DEF JobOK, Heard, u, got
  <2>14. TypeInv' /\ HeardInv' /\ job'[t] = j /\ \A w \in Paths : StillOwes(t, w)
    BY <1>1, <1>2, <1>3, <2>7, <2>9, <2>10, <2>11, <2>12, <2>13, CacheJobs
  <2>15. ASSUME NEW w \in Paths, Trusted(w)', w = u, o.late
         PROVE  /\ FolderThere(w)'
                /\ OwnChildren(w)'
                /\ \A v \in Kids(w) : ChildRight(w, v)'
    <3>1. LateLoad(job'[t], w)
      BY <2>12, <2>14, <2>15 DEF LateLoad
    <3>2. OwesFolder(job'[t], w) /\ \A v : OwesChild(job'[t], w, v)
      BY <3>1 DEF OwesFolder, OwesChild
    <3> QED
      BY <3>1, <3>2 DEF FolderThere, OwnChildren, ChildRight
  <2>16. ASSUME NEW w \in Paths, Trusted(w)', w = u, ~o.late
         PROVE  /\ FolderThere(w)'
                /\ OwnChildren(w)'
                /\ \A v \in Kids(w) : ChildRight(w, v)'
    <3>1. /\ remote[u] = "dir"
          /\ \A e \in got : e.uri \in Kids(u) /\ remote[e.uri] # "none"
          /\ \A v \in Kids(u) : remote[v] # "none" => \E e \in got : e.uri = v
      BY <1>1, <1>4, <2>16 DEF Heard, u, got
    <3>2. \A v : Shows(cache'[w], v) <=> \E e \in got : e.uri = v
      BY <2>5, <2>7, <2>16 DEF Shows
    <3>3. FolderThere(w)'
      BY <1>1, <2>16, <3>1 DEF FolderThere
    <3>4. OwnChildren(w)'
      BY <2>16, <3>1, <3>2 DEF OwnChildren
    <3>5. \A v \in Kids(w) : ChildRight(w, v)'
      BY <1>1, <2>16, <3>1, <3>2 DEF ChildRight
    <3> QED
      BY <3>3, <3>4, <3>5
  <2>17. ASSUME NEW w \in Paths, Trusted(w)', w # u
         PROVE  /\ FolderThere(w)'
                /\ OwnChildren(w)'
                /\ \A v \in Kids(w) : ChildRight(w, v)'
    <3>1. cache'[w] = cache[w] /\ Trusted(w) /\ StillOwes(t, w)
      BY <2>1, <2>7, <2>14, <2>17 DEF Trusted
    <3>2. ~OwesFolder(job[t], w) /\ \A v : ~OwesChild(job[t], w, v)
      BY <1>1, OwesNothing DEF o
    <3> QED
      BY <1>1, <3>1, <3>2, CacheListing
  <2>18. ListInv'
    BY <2>15, <2>16, <2>17 DEF ListInv
  <2> QED
    BY <2>14, <2>18 DEF OpsInv
<1> QED
  BY <1>5, <1>6

(* What a load that reports puts into the cache. *)
LEMMA ListedFields ==
    ASSUME OpsInv, NEW t \in Threads, job[t].what = "load", job[t].at = "listed",
           NEW es, es = Listed(t)
    PROVE  /\ es \in SUBSET Entries
           /\ \A e \in es : e.uri \in Paths /\ Parent(e.uri) \in Paths
           /\ ~job[t].late => \A e \in es : e.uri \in Kids(job[t].uri) /\ remote[e.uri] # "none"
<1>1. job[t] \in Jobs /\ Heard(job[t], remote)
  BY Parts DEF HeardInv
<1>2. es \subseteq job[t].got
  BY DEF Listed
<1>3. es \in SUBSET Entries
  BY <1>1, <1>2 DEF Jobs
<1>4. \A e \in es : e.uri \in Paths /\ Parent(e.uri) \in Paths
  BY <1>3, ParentOf DEF Entries
<1>5. ~job[t].late => \A e \in es : e.uri \in Kids(job[t].uri) /\ remote[e.uri] # "none"
  BY <1>1, <1>2 DEF Heard
<1> QED
  BY <1>3, <1>4, <1>5

LEMMA LoadReportsInv ==
    ASSUME OpsInv, NEW t \in Threads, LoadReports(t)
    PROVE  OpsInv'
<1> DEFINE es == Listed(t)
           xs == {e.uri : e \in es}
           jobs == Displaced(job, xs)
           us == IF job[t].late THEN {job[t].uri} \cup {Parent(e.uri) : e \in es} ELSE {}
<1>1. /\ job[t].what = "load" /\ job[t].at = "listed"
      /\ cache' = PutAll(cache, es) /\ Excuse(us) /\ UNCHANGED <<remote, changes>>
      /\ job' = [jobs EXCEPT ![t] = NoJob]
  BY DEF LoadReports, Is, Ends
<1>2. /\ cache \in [Paths -> Docs] /\ job \in [Threads -> Jobs]
      /\ \A p \in Paths : DocOK(cache[p])
      /\ \A s \in Threads : job[s].on => cache[job[s].uri].kind = "dir"
      /\ job[t].uri \in Paths
  BY Parts DEF Jobs
<1>3. /\ es \in SUBSET Entries
      /\ \A e \in es : e.uri \in Paths /\ Parent(e.uri) \in Paths
      /\ ~job[t].late => \A e \in es : e.uri \in Kids(job[t].uri) /\ remote[e.uri] # "none"
  BY <1>1, ListedFields
<1>4. us \in SUBSET Paths
  BY <1>2, <1>3
<1>5. /\ jobs \in [Threads -> Jobs]
      /\ \A s \in Threads : /\ Later(job[s], jobs[s])
                            /\ jobs[s].uri = job[s].uri
                            /\ jobs[s].on => job[s].on /\ job[s].uri \notin xs
  BY <1>2, DisplacedAll
<1>6. job[t].late => /\ job[t].uri \in us
                     /\ \A e \in es : Parent(e.uri) \in us
  OBVIOUS
<1>7. \A x : x \in xs <=> \E e \in es : e.uri = x
  OBVIOUS
<1> HIDE DEF es, xs, jobs, us
<1>8. /\ cache' \in [Paths -> Docs]
      /\ \A p \in Paths : DocOK(cache'[p])
      /\ \A e \in es : ~cache'[e.uri].listed
      /\ \A p \in Paths : (\A e \in es : e.uri # p) =>
            /\ cache'[p].kind = cache[p].kind /\ cache'[p].listed = cache[p].listed
            /\ \A v : Shows(cache'[p], v) <=>
                  \/ Shows(cache[p], v)
                  \/ cache[p].listed /\ \E e \in es : e.uri = v /\ Parent(v) = p
  <2>1. IsPutAll(cache, es, cache')
    BY <1>1, <1>2, <1>3, PutAllFields
  <2> QED
    BY <2>1 DEF IsPutAll
<1>9. /\ excused' \subseteq {w \in Paths : cache'[w].listed}
      /\ \A w \in Paths : Trusted(w)' => w \notin excused /\ w \notin us
  BY <1>1, <1>4, Parts, ExcuseFields
<1>10. \A s \in Threads \ {t} : jobs[s].on => cache'[jobs[s].uri].kind = "dir"
  <2> SUFFICES ASSUME NEW s \in Threads, jobs[s].on
               PROVE  cache'[jobs[s].uri].kind = "dir"
    OBVIOUS
  <2>1. job[s].on /\ jobs[s].uri = job[s].uri /\ \A e \in es : e.uri # job[s].uri
    BY <1>5, <1>7
  <2>2. cache[job[s].uri].kind = "dir" /\ job[s].uri \in Paths
    BY <1>2, <2>1 DEF Jobs
  <2> QED
    BY <1>8, <2>1, <2>2
<1>11. TypeInv' /\ HeardInv' /\ \A w \in Paths : StillOwes(t, w)
  BY <1>1, <1>5, <1>8, <1>9, <1>10, NoJobOK, CacheJobs
<1>12. ListInv'
  <2> SUFFICES ASSUME NEW w \in Paths, Trusted(w)'
               PROVE  /\ FolderThere(w)'
                      /\ OwnChildren(w)'
                      /\ \A v \in Kids(w) : ChildRight(w, v)'
    BY DEF ListInv
  <2>1. w \notin excused /\ w \notin us /\ cache'[w].listed
    BY <1>9 DEF Trusted
  <2>2. \A e \in es : e.uri # w
    BY <1>8, <2>1
  <2>3. /\ cache[w].listed
        /\ \A v : Shows(cache'[w], v) <=>
              \/ Shows(cache[w], v)
              \/ \E e \in es : e.uri = v /\ Parent(v) = w
    BY <1>8, <2>1, <2>2
  <2>4. Trusted(w)
    BY <2>1, <2>3 DEF Trusted
  <2>5. ~LateLoad(job[t], w)
    BY <1>6, <2>1 DEF LateLoad
  <2>6. ~OwesFolder(job[t], w) /\ \A v : ~OwesChild(job[t], w, v)
    BY <1>1, <2>5 DEF OwesFolder, OwesChild
  <2>7. ASSUME NEW v \in Paths, Shows(cache'[w], v)
        PROVE  Shows(cache[w], v) \/ v \in Kids(w)
    <3>1. CASE Shows(cache[w], v)
      BY <3>1
    <3>2. CASE \E e \in es : e.uri = v /\ Parent(v) = w
      <4>1. v # <<>>
        BY <2>2, <3>2 DEF Parent
      <4> QED
        BY <3>2, <4>1 DEF Kids
    <3> QED
      BY <2>3, <2>7, <3>1, <3>2
  <2>8. ASSUME NEW v \in Kids(w)
        PROVE  \/ /\ Shows(cache'[w], v) <=> Shows(cache[w], v)
                  /\ ~OwesChild(job[t], w, v)
               \/ Shows(cache'[w], v) <=> remote[v] # "none"
    <3>1. CASE \E e \in es : e.uri = v
      <4>1. Parent(v) = w
        BY DEF Kids
      <4>2. ~job[t].late
        BY <1>6, <2>1, <3>1, <4>1
      <4>3. remote[v] # "none"
        BY <1>3, <3>1, <4>2
      <4> QED
        BY <2>3, <3>1, <4>1, <4>3
    <3>2. CASE ~\E e \in es : e.uri = v
      BY <2>3, <2>6, <3>2
    <3> QED
      BY <3>1, <3>2
  <2>9. StillOwes(t, w)
    BY <1>11
  <2> QED
    BY <1>1, <2>4, <2>6, <2>7, <2>8, <2>9, CacheListing
<1> QED
  BY <1>11, <1>12 DEF OpsInv

LEMMA LoadCannotCloseInv ==
    ASSUME OpsInv, NEW t \in Threads, LoadCannotClose(t)
    PROVE  OpsInv'
<1> DEFINE us == IF job[t].late THEN {job[t].uri} ELSE {}
<1>1. /\ job[t].what = "load" /\ job[t].at = "listed"
      /\ cache' = cache /\ Excuse(us) /\ UNCHANGED <<remote, changes>>
      /\ job' = [job EXCEPT ![t] = NoJob]
  BY DEF LoadCannotClose, Is, Ends
<1>2. /\ cache \in [Paths -> Docs] /\ job \in [Threads -> Jobs]
      /\ \A p \in Paths : DocOK(cache[p])
      /\ \A s \in Threads : job[s].on => cache[job[s].uri].kind = "dir"
      /\ job[t].uri \in Paths
  BY Parts DEF Jobs
<1>3. us \in SUBSET Paths /\ (job[t].late => job[t].uri \in us)
  BY <1>2
<1> HIDE DEF us
<1>4. /\ excused' \subseteq {w \in Paths : cache'[w].listed}
      /\ \A w \in Paths : Trusted(w)' => w \notin excused /\ w \notin us
  BY <1>1, <1>3, Parts, ExcuseFields
<1>5. \A s \in Threads : Later(job[s], job[s])
  BY DEF Later
<1>6. TypeInv' /\ HeardInv' /\ \A w \in Paths : StillOwes(t, w)
  BY <1>1, <1>2, <1>4, <1>5, NoJobOK, CacheJobs
<1>7. ListInv'
  <2> SUFFICES ASSUME NEW w \in Paths, Trusted(w)'
               PROVE  /\ FolderThere(w)'
                      /\ OwnChildren(w)'
                      /\ \A v \in Kids(w) : ChildRight(w, v)'
    BY DEF ListInv
  <2>1. w \notin excused /\ w \notin us /\ Trusted(w)
    BY <1>1, <1>4 DEF Trusted
  <2>2. ~LateLoad(job[t], w)
    BY <1>3, <2>1 DEF LateLoad
  <2>3. ~OwesFolder(job[t], w) /\ \A v : ~OwesChild(job[t], w, v)
    BY <1>1, <2>2 DEF OwesFolder, OwesChild
  <2>4. StillOwes(t, w)
    BY <1>6
  <2> QED
    BY <1>1, <2>1, <2>3, <2>4, CacheListing
<1> QED
  BY <1>6, <1>7 DEF OpsInv

(* A rename of a document that is not in the cache only ends: what it may  *)
(* have spoiled is excused.                                                *)
LEMMA RenameUncachedInv ==
    ASSUME OpsInv, NEW t \in Threads, RenameInCache(t), ~Cached(job[t].uri)
    PROVE  OpsInv'
<1> DEFINE u == job[t].uri
           to == job[t].to
           us == Spoiled(t) \cup Under(u) \cup {Parent(to)}
                    \cup {p \in {Parent(u)} : u \in Shown(p)}
<1>1. /\ job[t].what = "rename" /\ job[t].at = "done"
      /\ cache' = cache /\ Excuse(us) /\ UNCHANGED <<remote, changes>>
      /\ job' = [job EXCEPT ![t] = NoJob]
  BY DEF RenameInCache, Is, Ends
<1>2. /\ cache \in [Paths -> Docs] /\ job \in [Threads -> Jobs]
      /\ \A p \in Paths : DocOK(cache[p])
      /\ \A s \in Threads : job[s].on => cache[job[s].uri].kind = "dir"
      /\ job[t] \in Jobs /\ Heard(job[t], remote) /\ u \in Paths /\ to \in Paths
  BY Parts DEF HeardInv, Jobs
<1>3. us \in SUBSET Paths
  <2>1. Parent(u) \in Paths /\ Parent(to) \in Paths
    BY <1>2, ParentOf
  <2>2. Under(u) \in SUBSET Paths
    BY DEF Under
  <2> QED
    BY <1>2, <2>1, <2>2, SpoiledPaths
<1>4. \A w : w \notin us =>
         /\ w \notin Under(u) /\ w # Parent(to)
         /\ w = Parent(u) => ~Shows(cache[w], u)
         /\ job[t].late => w # Parent(u)
  BY DEF Spoiled, Shown, Shows
<1> HIDE DEF us
<1>5. /\ excused' \subseteq {w \in Paths : cache'[w].listed}
      /\ \A w \in Paths : Trusted(w)' => w \notin excused /\ w \notin us
  BY <1>1, <1>3, Parts, ExcuseFields
<1>6. \A s \in Threads : Later(job[s], job[s])
  BY DEF Later
<1>7. TypeInv' /\ HeardInv' /\ \A w \in Paths : StillOwes(t, w)
  BY <1>1, <1>2, <1>5, <1>6, NoJobOK, CacheJobs
<1>8. ListInv'
  <2> SUFFICES ASSUME NEW w \in Paths, Trusted(w)'
               PROVE  /\ FolderThere(w)'
                      /\ OwnChildren(w)'
                      /\ \A v \in Kids(w) : ChildRight(w, v)'
    BY DEF ListInv
  <2>1. w \notin excused /\ w \notin us /\ Trusted(w)
    BY <1>1, <1>5 DEF Trusted
  <2>2. ~OwesFolder(job[t], w)
    BY <1>1, <1>4, <2>1 DEF OwesFolder, LateLoad
  <2>3. ASSUME NEW v \in Kids(w)
        PROVE  \/ /\ Shows(cache'[w], v) <=> Shows(cache[w], v)
                  /\ ~OwesChild(job[t], w, v)
               \/ Shows(cache'[w], v) <=> remote[v] # "none"
    <3>1. Parent(v) = w
      BY DEF Kids
    <3>2. CASE v = u
      <4>1. remote[u] = "none"
        BY <1>1, <1>2, <1>4, <2>1, <3>1, <3>2 DEF Heard
      <4>2. ~Shows(cache'[w], v)
        BY <1>1, <1>4, <2>1, <3>1, <3>2
      <4> QED
        BY <3>2, <4>1, <4>2
    <3>3. CASE v # u
      <4>1. ~job[t].late \/ w \notin {Parent(job[t].uri), Parent(job[t].to)}
        BY <1>4, <2>1
      <4>2. v # to
        BY <1>4, <2>1, <3>1
      <4>3. ~OwesChild(job[t], w, v)
        BY <1>1, <2>2, <3>3, <4>1, <4>2 DEF OwesChild
      <4> QED
        BY <1>1, <4>3
    <3> QED
      BY <3>2, <3>3
  <2>4. StillOwes(t, w)
    BY <1>7
  <2> QED
    BY <1>1, <2>1, <2>2, <2>3, <2>4, CacheListing
<1> QED
  BY <1>7, <1>8 DEF OpsInv

(* A document gets another uri in the cache: its old folder loses it, its  *)
(* new one shows it.                                                       *)
IsRenamed(docs, u, to, c) ==
    /\ c \in [Paths -> Docs]
    /\ \A p \in Paths : DocOK(c[p])
    /\ c[to] = docs[u]
    /\ \A p \in Paths \ {u, to} :
          /\ c[p].kind = docs[p].kind /\ c[p].listed = docs[p].listed
          /\ \A v : Shows(c[p], v) <=>
                \/ Shows(docs[p], v) /\ ~(p = Parent(u) /\ v = u)
                \/ p = Parent(to) /\ docs[p].listed /\ v = to

LEMMA RenamedDocs ==
    ASSUME cache \in [Paths -> Docs], \A p \in Paths : DocOK(cache[p]),
           NEW u \in Paths, NEW to \in Paths, Cached(u),
           NEW c, c = Put(Drop(cache, u), to, cache[u])
    PROVE  IsRenamed(cache, u, to, c)
<1> DEFINE docs == Drop(cache, u)
           d == cache[u]
<1>1. IsDrop(cache, u, docs)
  BY DropFields
<1>2. d \in Docs /\ DocOK(d) /\ d.kind \in {"file", "dir"}
  BY CachedKind
<1> HIDE DEF docs, d
<1>3. docs \in [Paths -> Docs] /\ \A p \in Paths : DocOK(docs[p])
  BY <1>1 DEF IsDrop
<1>4. c = Put(docs, to, d)
  BY DEF docs, d
<1>5. IsPut(docs, to, d, c)
  BY <1>2, <1>3, <1>4, PutFields
<1>6. c \in [Paths -> Docs] /\ (\A p \in Paths : DocOK(c[p])) /\ c[to] = d
  BY <1>5 DEF IsPut
<1>7. ASSUME NEW p \in Paths \ {u, to}
      PROVE  /\ c[p].kind = cache[p].kind /\ c[p].listed = cache[p].listed
             /\ \A v : Shows(c[p], v) <=>
                       \/ Shows(cache[p], v) /\ ~(p = Parent(u) /\ v = u)
                       \/ p = Parent(to) /\ cache[p].listed /\ v = to
  <2>1. /\ docs[p].kind = cache[p].kind /\ docs[p].listed = cache[p].listed
        /\ \A v : Shows(docs[p], v) <=> Shows(cache[p], v) /\ ~(p = Parent(u) /\ v = u)
    BY <1>1, <1>7 DEF IsDrop
  <2>2. /\ c[p].kind = docs[p].kind /\ c[p].listed = docs[p].listed
        /\ \A v : Shows(c[p], v) <=>
              \/ Shows(docs[p], v)
              \/ p = Parent(to) /\ docs[p].listed /\ v = to
    BY <1>5, <1>7 DEF IsPut
  <2> QED
    BY <2>1, <2>2
<1> QED
  BY <1>6, <1>7 DEF d, IsRenamed

(* What k owes in w, when it owed it as j. *)
Owing(j, k, w) ==
    /\ LateLoad(j, w) => LateLoad(k, w)
    /\ OwesFolder(j, w) => OwesFolder(k, w)
    /\ \A v : OwesChild(j, w, v) => OwesChild(k, w, v)

LEMMA MovedLoad ==
    ASSUME NEW i \in Jobs, NEW to \in Paths,
           NEW k, k = [i EXCEPT !.uri = to, !.to = to, !.late = TRUE]
    PROVE  /\ k \in Jobs /\ k.what = i.what /\ k.at = i.at /\ k.uri = to /\ k.on = i.on
           /\ k.kind = i.kind /\ k.late = TRUE
BY DEF Jobs

(* The loads of its object go on under its new uri, and are late. *)
LEMMA RenamedJobs ==
    ASSUME OpsInv, NEW u \in Paths, NEW to \in Paths, NEW c, IsRenamed(cache, u, to, c),
           NEW old, old = Displaced(job, {to}),
           NEW jobs, jobs = [s \in Threads |->
                                IF old[s].on /\ old[s].uri = u
                                THEN [old[s] EXCEPT !.uri = to, !.to = to, !.late = TRUE]
                                ELSE old[s]]
    PROVE  /\ jobs \in [Threads -> Jobs]
           /\ \A s \in Threads : /\ JobOK(jobs[s]) /\ Heard(jobs[s], remote)
                                 /\ jobs[s].on => c[jobs[s].uri].kind = "dir"
                                 /\ \A w : w # u => Owing(job[s], jobs[s], w)
<1> c[to] = cache[u] /\ \A p \in Paths \ {u, to} : c[p].kind = cache[p].kind
  BY DEF IsRenamed
<1> SUFFICES ASSUME NEW s \in Threads, NEW i, i = old[s], NEW k, k = jobs[s]
             PROVE  /\ k \in Jobs /\ JobOK(k) /\ Heard(k, remote)
                    /\ k.on => c[k.uri].kind = "dir"
                    /\ \A w : w # u => Owing(job[s], k, w)
  OBVIOUS
<1>1. /\ i \in Jobs /\ Later(job[s], i)
      /\ i.on => job[s].on /\ job[s].uri \notin {to}
  BY Parts, DisplacedLater
<1>2. /\ job[s] \in Jobs /\ JobOK(job[s]) /\ Heard(job[s], remote)
      /\ job[s].on => cache[job[s].uri].kind = "dir"
  BY Parts DEF HeardInv
<1>3. k = IF i.on /\ i.uri = u
           THEN [i EXCEPT !.uri = to, !.to = to, !.late = TRUE] ELSE i
  OBVIOUS
<1>4. JobOK(i) /\ Heard(i, remote) /\ i.uri = job[s].uri /\ i.what = job[s].what
  BY <1>1, <1>2, LaterOK, LaterHeard DEF Later
<1>5. CASE i.on /\ i.uri = u
  <2>1. k = [i EXCEPT !.uri = to, !.to = to, !.late = TRUE]
    BY <1>3, <1>5
  <2>2. /\ k \in Jobs /\ k.what = i.what /\ k.at = i.at /\ k.uri = to /\ k.on = i.on
        /\ k.kind = i.kind /\ k.late = TRUE
    BY <1>1, <2>1, MovedLoad
  <2>3. JobOK(k) /\ Heard(k, remote)
    BY <1>4, <2>2 DEF JobOK, Heard
  <2>4. c[k.uri].kind = "dir"
    BY <1>1, <1>2, <1>4, <1>5, <2>2
  <2>5. job[s].what = "load" /\ job[s].uri = u
    BY <1>1, <1>2, <1>4, <1>5 DEF JobOK
  <2>6. ASSUME NEW w, w # u
        PROVE  Owing(job[s], k, w)
    BY <2>5, <2>6 DEF LateLoad, OwesFolder, OwesChild, Owing
  <2> QED
    BY <2>2, <2>3, <2>4, <2>6
<1>6. CASE ~(i.on /\ i.uri = u)
  <2>1. k = i
    BY <1>3, <1>6
  <2>2. k.on => c[k.uri].kind = "dir"
    <3> SUFFICES ASSUME k.on
                 PROVE  c[k.uri].kind = "dir"
      OBVIOUS
    <3>1. k.uri = job[s].uri /\ job[s].on /\ job[s].uri # to /\ job[s].uri # u
      BY <1>1, <1>4, <1>6, <2>1
    <3>2. job[s].uri \in Paths
      BY <1>2 DEF Jobs
    <3> QED
      BY <1>2, <3>1, <3>2
  <2>3. \A w : Owing(job[s], k, w)
    BY <1>1, <2>1, LaterOwes DEF Owing
  <2> QED
    BY <1>1, <1>4, <2>1, <2>2, <2>3
<1> QED
  BY <1>5, <1>6

LEMMA RenameCachedInv ==
    ASSUME OpsInv, NEW t \in Threads, RenameInCache(t), Cached(job[t].uri)
    PROVE  OpsInv'
<1> DEFINE u == job[t].uri
           to == job[t].to
           us == Spoiled(t) \cup Under(u) \cup {to}
           old == Displaced(job, {to})
           jobs == [s \in Threads |->
                       IF old[s].on /\ old[s].uri = u
                       THEN [old[s] EXCEPT !.uri = to, !.to = to, !.late = TRUE] ELSE old[s]]
<1>1. /\ job[t].what = "rename" /\ job[t].at = "done"
      /\ cache' = Put(Drop(cache, u), to, cache[u])
      /\ Excuse(us) /\ UNCHANGED <<remote, changes>>
      /\ job' = [jobs EXCEPT ![t] = NoJob]
  BY DEF RenameInCache, Is, Ends
<1>2. /\ cache \in [Paths -> Docs] /\ \A p \in Paths : DocOK(cache[p])
      /\ job[t] \in Jobs /\ Heard(job[t], remote) /\ u \in Paths /\ to \in Paths
  BY Parts DEF HeardInv, Jobs
<1>3. us \in SUBSET Paths
  <2>1. Under(u) \in SUBSET Paths
    BY DEF Under
  <2> QED
    BY <1>2, <2>1, SpoiledPaths
<1>4. \A w \in Paths : w \notin us =>
         /\ w \notin Under(u) /\ w # to /\ w # u
         /\ job[t].late => w \notin {Parent(u), Parent(to)}
  <2>1. u \in Under(u)
    BY <1>2, PrefixOrder DEF Under
  <2> QED
    BY <2>1 DEF Spoiled
<1> HIDE DEF us, u, to
<1>5. IsRenamed(cache, u, to, cache')
  <2> DEFINE c == cache'
  <2>1. c = Put(Drop(cache, u), to, cache[u]) /\ Cached(u)
    BY <1>1 DEF u
  <2> HIDE DEF c
  <2>2. IsRenamed(cache, u, to, c)
    BY <1>2, <2>1, RenamedDocs
  <2> QED
    BY <2>2 DEF c
<1>6. /\ cache' \in [Paths -> Docs]
      /\ \A p \in Paths : DocOK(cache'[p])
      /\ cache'[to] = cache[u]
      /\ \A p \in Paths \ {u, to} :
            /\ cache'[p].kind = cache[p].kind /\ cache'[p].listed = cache[p].listed
            /\ \A v : Shows(cache'[p], v) <=>
                  \/ Shows(cache[p], v) /\ ~(p = Parent(u) /\ v = u)
                  \/ p = Parent(to) /\ cache[p].listed /\ v = to
  BY <1>5 DEF IsRenamed
<1>7. /\ jobs \in [Threads -> Jobs]
      /\ \A s \in Threads : /\ JobOK(jobs[s]) /\ Heard(jobs[s], remote)
                            /\ jobs[s].on => cache'[jobs[s].uri].kind = "dir"
                            /\ \A w : w # u => Owing(job[s], jobs[s], w)
  BY <1>2, <1>5, RenamedJobs
<1> HIDE DEF jobs, old
<1>8. /\ job' \in [Threads -> Jobs]
      /\ job'[t] = NoJob
      /\ \A s \in Threads \ {t} : job'[s] = jobs[s]
  BY <1>1, <1>7, NoJobOK
<1>9. /\ excused' \subseteq {w \in Paths : cache'[w].listed}
      /\ \A w \in Paths : Trusted(w)' => w \notin excused /\ w \notin us
  BY <1>1, <1>3, Parts, ExcuseFields
<1>10. ASSUME NEW s \in Threads
      PROVE  /\ JobOK(job'[s])
             /\ Heard(job'[s], remote)
             /\ job'[s].on => cache'[job'[s].uri].kind = "dir"
  BY <1>7, <1>8, NoJobOK
<1>11. remote' = remote /\ changes' = changes
  BY <1>1
<1>12. TypeInv'
  <2>1. TypeOK'
    BY <1>6, <1>8, <1>9, <1>10, <1>11, Parts DEF TypeOK
  <2> QED
    BY <1>6, <1>10, <2>1 DEF TypeInv
<1>13. HeardInv'
  BY <1>10, <1>11 DEF HeardInv
<1>14. ListInv'
  <2> SUFFICES ASSUME NEW w \in Paths, Trusted(w)'
               PROVE  /\ FolderThere(w)'
                      /\ OwnChildren(w)'
                      /\ \A v \in Kids(w) : ChildRight(w, v)'
    BY DEF ListInv
  <2>1. /\ w \notin excused /\ w \notin Under(u) /\ w # to /\ w # u /\ cache'[w].listed
        /\ job[t].late => w \notin {Parent(u), Parent(to)}
    BY <1>4, <1>9 DEF Trusted
  <2>2. /\ cache[w].listed
        /\ \A v : Shows(cache'[w], v) <=>
              \/ Shows(cache[w], v) /\ ~(w = Parent(u) /\ v = u)
              \/ w = Parent(to) /\ v = to
    BY <1>6, <2>1
  <2>3. Trusted(w)
    BY <2>1, <2>2 DEF Trusted
  <2>4. StillOwes(t, w)
    BY <1>7, <1>8, <2>1 DEF StillOwes, Owing
  <2>5. ~OwesFolder(job[t], w)
    BY <1>1, <2>1 DEF OwesFolder, LateLoad, u
  <2>6. ASSUME NEW v \in Paths, Shows(cache'[w], v)
        PROVE  Shows(cache[w], v) \/ v \in Kids(w)
    <3>1. w = Parent(to) => to # <<>>
      BY <2>1 DEF Parent
    <3>2. Shows(cache[w], v) \/ (w = Parent(to) /\ v = to)
      BY <2>2, <2>6
    <3> QED
      BY <3>1, <3>2 DEF Kids
  <2>7. ASSUME NEW v \in Kids(w)
        PROVE  \/ /\ Shows(cache'[w], v) <=> Shows(cache[w], v)
                  /\ ~OwesChild(job[t], w, v)
               \/ Shows(cache'[w], v) <=> remote[v] # "none"
    <3>1. Parent(v) = w
      BY DEF Kids
    <3>2. ASSUME v \in {u, to}
          PROVE  remote[u] = "none" /\ remote[to] # "none"
      BY <1>1, <1>2, <2>1, <3>1, <3>2 DEF Heard, u, to
    <3>3. CASE v = to
      BY <2>2, <3>1, <3>2, <3>3
    <3>4. CASE v = u /\ v # to
      BY <2>2, <3>1, <3>2, <3>4
    <3>5. CASE v \notin {u, to}
      <4>1. Shows(cache'[w], v) <=> Shows(cache[w], v)
        BY <2>2, <3>5
      <4>2. ~OwesChild(job[t], w, v)
        BY <1>1, <2>1, <2>5, <3>5 DEF OwesChild, u, to
      <4> QED
        BY <4>1, <4>2
    <3> QED
      BY <3>3, <3>4, <3>5
  <2> QED
    BY <1>1, <2>3, <2>4, <2>5, <2>6, <2>7, CacheListing
<1> QED
  BY <1>12, <1>13, <1>14 DEF OpsInv

LEMMA RenameInCacheInv ==
    ASSUME OpsInv, NEW t \in Threads, RenameInCache(t)
    PROVE  OpsInv'
BY RenameUncachedInv, RenameCachedInv

-------------------------------------------------------------------------------
(* The theorems. *)

LEMMA InitInv ==
    ASSUME Init
    PROVE  OpsInv
<1>1. /\ remote \in Trees /\ excused = {} /\ changes = 0
      /\ cache = [u \in Paths |-> NoDoc] /\ job = [t \in Threads |-> NoJob]
  BY DEF Init
<1>2. cache \in [Paths -> Docs] /\ \A u \in Paths : cache[u] = NoDoc
  BY <1>1, NoDocFields
<1>3. job \in [Threads -> Jobs] /\ \A t \in Threads : job[t] = NoJob
  BY <1>1, NoJobOK
<1>4. TypeInv
  <2>1. TypeOK
    BY <1>1, <1>2, <1>3, NoJobOK, PathsAssumption DEF TypeOK
  <2> QED
    BY <1>2, <1>3, <2>1, NoDocFields, NoJobOK DEF TypeInv
<1>5. HeardInv
  BY <1>3, NoJobOK DEF HeardInv
<1>6. ListInv
  BY <1>2, NoDocFields DEF ListInv, Trusted
<1> QED
  BY <1>4, <1>5, <1>6 DEF OpsInv

LEMMA StutterInv ==
    ASSUME OpsInv, UNCHANGED vars
    PROVE  OpsInv'
<1>1. TypeInv' /\ HeardInv'
  BY DEF vars, OpsInv, TypeInv, TypeOK, HeardInv
<1>2. ASSUME NEW w \in Paths, Trusted(w)'
      PROVE  /\ FolderThere(w)'
             /\ OwnChildren(w)'
             /\ \A v \in Kids(w) : ChildRight(w, v)'
  <2>1. FolderThere(w) /\ OwnChildren(w) /\ \A v \in Kids(w) : ChildRight(w, v)
    BY <1>2 DEF vars, OpsInv, ListInv, Trusted
  <2> QED
    BY <2>1 DEF vars, FolderThere, OwnChildren, ChildRight
<1>3. ListInv'
  BY <1>2 DEF ListInv
<1> QED
  BY <1>1, <1>3 DEF OpsInv

LEMMA NextInv == OpsInv /\ [Next]_vars => OpsInv'
<1> SUFFICES ASSUME OpsInv, [Next]_vars
             PROVE  OpsInv'
  OBVIOUS
<1>1. ASSUME NEW t \in Threads, CreateOnServer(t) \/ CreateInCache(t)
      PROVE  OpsInv'
  BY <1>1, CreateOnServerInv, CreateInCacheInv
<1>2. ASSUME NEW t \in Threads, QueryOnServer(t) \/ QueryInCache(t)
      PROVE  OpsInv'
  BY <1>2, QueryOnServerInv, QueryInCacheInv
<1>3. ASSUME NEW t \in Threads, RenameOnServer(t) \/ RenameInCache(t)
      PROVE  OpsInv'
  BY <1>3, RenameOnServerInv, RenameInCacheInv
<1>4. ASSUME NEW t \in Threads,
             DeleteLooks(t) \/ DeleteEnters(t) \/ DeleteOnServer(t) \/ DeleteFails(t)
      PROVE  OpsInv'
  BY <1>4, DeleteLooksInv, DeleteEntersInv, DeleteOnServerInv, DeleteFailsInv
<1>5. ASSUME NEW t \in Threads, DeleteInCache(t) \/ DeleteCatches(t)
      PROVE  OpsInv'
  BY <1>5, DeleteInCacheInv, DeleteCatchesInv
<1>6. ASSUME NEW t \in Threads, LoadStarts(t) \/ LoadReads(t) \/ LoadFails(t)
      PROVE  OpsInv'
  BY <1>6, LoadStartsInv, LoadReadsInv
<1>7. ASSUME NEW t \in Threads, LoadSets(t) \/ LoadCannotClose(t) \/ LoadReports(t)
      PROVE  OpsInv'
  BY <1>7, LoadSetsInv, LoadCannotCloseInv, LoadReportsInv
<1>8. CASE OtherMachine
  BY <1>8, OtherMachineInv
<1>9. CASE UNCHANGED vars
  BY <1>9, StutterInv
<1> QED
  BY <1>1, <1>2, <1>3, <1>4, <1>5, <1>6, <1>7, <1>8, <1>9 DEF Next

(* What a job owes concerns documents that are in progress. *)
LEMMA OwedInProgress ==
    ASSUME OpsInv, NEW w \in Paths, ~InProgress(w), NEW s \in Threads
    PROVE  /\ ~LateLoad(job[s], w) /\ ~OwesFolder(job[s], w)
           /\ \A v \in Kids(w) : ~OwesChild(job[s], w, v)
<1>1. job[s].at # "idle" => job[s].what # "none"
  BY Parts DEF JobOK, OpsInv, TypeInv
<1>2. ASSUME job[s].what # "none", NEW y \in {job[s].uri, job[s].to}
      PROVE  w # y /\ w # Parent(y) /\ (job[s].what = "rename" => w \notin Under(y))
  BY <1>2 DEF InProgress
<1>3. ~LateLoad(job[s], w)
  BY <1>2 DEF LateLoad
<1>4. ~OwesFolder(job[s], w)
  BY <1>2, <1>3 DEF OwesFolder
<1>5. ASSUME NEW v \in Kids(w)
      PROVE  ~OwesChild(job[s], w, v)
  <2>1. Parent(v) = w
    BY DEF Kids
  <2> QED
    BY <1>1, <1>2, <1>4, <2>1 DEF OwesChild
<1> QED
  BY <1>3, <1>4, <1>5

LEMMA ExactListings == OpsInv => ListingExact
<1> SUFFICES ASSUME OpsInv, NEW u \in Paths, Trusted(u), ~InProgress(u)
             PROVE  Shown(u) = {e.uri : e \in OnServer(u)}
  BY DEF ListingExact, Trusted
<1>1. OwnChildren(u) /\ \A v \in Kids(u) : ChildRight(u, v)
  BY Parts DEF ListInv
<1>2. \A v \in Paths : Shows(cache[u], v) => v \in Kids(u)
  BY <1>1, OwedInProgress DEF OwnChildren
<1>3. \A v \in Kids(u) : Shows(cache[u], v) <=> remote[v] # "none"
  BY <1>1, OwedInProgress DEF ChildRight
<1>4. \A e \in cache[u].children : e.uri \in Paths
  BY Parts DEF Docs, Entries
<1>5. \A v : v \in Shown(u) <=> Shows(cache[u], v)
  BY DEF Shown, Shows
<1>6. \A v : v \in {e.uri : e \in OnServer(u)} <=> v \in Kids(u) /\ remote[v] # "none"
  <2>1. ASSUME NEW v, v \in {e.uri : e \in OnServer(u)}
        PROVE  v \in Kids(u) /\ remote[v] # "none"
    BY <2>1 DEF OnServer, Entry
  <2>2. ASSUME NEW v \in Kids(u), remote[v] # "none"
        PROVE  v \in {e.uri : e \in OnServer(u)}
    <3>1. Entry(v, remote[v]) \in OnServer(u) /\ Entry(v, remote[v]).uri = v
      BY <2>2 DEF OnServer, Entry
    <3> QED
      BY <3>1
  <2> QED
    BY <2>1, <2>2
<1>7. \A v : v \in Shown(u) => v \in Paths
  BY <1>4 DEF Shown
<1>8. \A v : v \in Kids(u) => v \in Paths
  BY DEF Kids
<1>9. \A v : v \in Shown(u) <=> v \in {e.uri : e \in OnServer(u)}
  BY <1>2, <1>3, <1>5, <1>6, <1>7, <1>8
<1> QED
  BY <1>9

(* The cache, the jobs and the tree on the server keep their types,        *)
(* whatever the threads and other machines do: the server never has a      *)
(* document outside a folder, only listed folders are excused, and a load  *)
(* that works on an object of the cache works on a folder.                 *)
THEOREM TypeCorrect == Spec => []TypeOK
<1>1. Init => OpsInv
  BY InitInv
<1>2. OpsInv => TypeOK
  BY DEF OpsInv, TypeInv
<1> QED
  BY <1>1, <1>2, NextInv, PTL DEF Spec

(* In a tree of any depth, with any number of threads and other machines   *)
(* at work, a listing in the cache shows the documents the server has in   *)
(* the folder, unless somebody is working on one of them or the listing is *)
(* one of those that are excused.                                          *)
THEOREM ListingsAreExact == Spec => []ListingExact
<1>1. Init => OpsInv
  BY InitInv
<1> QED
  BY <1>1, NextInv, ExactListings, PTL DEF Spec

===============================================================================

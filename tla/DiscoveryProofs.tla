---------------------------- MODULE DiscoveryProofs ----------------------------
(***************************************************************************)
(* Proofs about Discovery, and about CancellableThreads within it, for any *)
(* number of searches, machines, threads and cancellers.                   *)
(***************************************************************************)
EXTENDS Discovery, CancellableThreadsProofs

(* Packets are answers of machines that their query has reached.           *)
Packets == [trans : Int, from : Machines, to : Searches, pos : Nat]

AirOK(p) ==
    /\ p.pos \in DOMAIN Asks[p.to]
    /\ p.from \in Reached[p.to][p.pos]
    /\ p.trans = TransId(p.to, p.pos)

(* The names may be listed for ip. *)
Theirs(ip, names) ==
    \A name \in names :
        \/ name \in Range(Names[ip])
        \/ \E other \in Machines : name \in Range(Names[other]) /\ Confused(ip, other)

SearchRecords == [at : {"ask", "listen", "add"}, pos : Nat, ip : Machines \cup {NoTask},
                  todo : Seq(Services)]
AddingRecords == [who : Searches, ip : Machines, list : SUBSET Services]
ScreenRecords == [at : {"resting", "reading", "dead"}, left : SUBSET Machines, stale : BOOLEAN]
SearchOK(o) ==
    /\ search[o].pos >= 1
    /\ search[o].at = "listen" => search[o].pos \in DOMAIN Asks[o]
    /\ search[o].at = "add" => /\ search[o].ip \in Machines /\ search[o].todo # <<>>
                               /\ search[o].pos \in DOMAIN Asks[o]
                               /\ Theirs(search[o].ip, Range(search[o].todo))

(* addServiceData has taken the list out of the table.                     *)
AddingOK ==
    /\ adding = Nobody \/ adding \in AddingRecords
    /\ adding # Nobody => /\ search[adding.who].at = "add" /\ search[adding.who].ip = adding.ip
                          /\ table[adding.ip] = {}
                          /\ Theirs(adding.ip, adding.list)

(* The table is what the calls make one after the other, but for the list  *)
(* that is taken out.                                                      *)
SerialOK ==
    /\ serial \in [Machines -> SUBSET Services]
    /\ \A ip \in Machines : table[ip] = serial[ip] \/ adding.ip = ip
    /\ adding # Nobody => adding.list = serial[adding.ip]

Listed(ips) == UNION {{<<ip, name>> : name \in table[ip]} : ip \in ips}

(* The screen shows the table, or a refresh is due.                        *)
ScreenOK ==
    /\ screen \in ScreenRecords
    /\ pending \in BOOLEAN
    /\ screen.at = "reading" /\ screen.stale => pending \/ adding # Nobody
    /\ screen.at = "resting" /\ ~pending /\ adding = Nobody => shown = Listed(Machines)
    /\ screen.at = "reading" /\ ~pending /\ adding = Nobody /\ ~screen.stale
       => shown = Listed(Machines \ screen.left)

SearchInv ==
    /\ cast \in Casts
    /\ search \in [Searches -> SearchRecords]
    /\ \A o \in Searches : SearchOK(o)
    /\ air \subseteq Packets /\ \A p \in air : AirOK(p)

TableInv ==
    /\ table \in [Machines -> SUBSET Services]
    /\ \A ip \in Machines : Theirs(ip, table[ip])
    /\ AddingOK
    /\ SerialOK

DiscoveryInv == ThreadsInv /\ SearchInv /\ TableInv /\ ScreenOK

-------------------------------------------------------------------------------
(***************************************************************************)
(* Types.                                                                  *)
(***************************************************************************)
LEMMA AsksType ==
    /\ \A o \in Searches : Len(Asks[o]) \in Nat /\ DOMAIN Asks[o] = 1..Len(Asks[o])
    /\ \A o \in Searches : \A i \in DOMAIN Asks[o] : Reached[o][i] \subseteq Machines
    /\ \A o \in Sweeps : /\ o \in Searches
                         /\ \A i \in DOMAIN Asks[o] : /\ Asks[o][i] \in Machines
                                                      /\ Reached[o][i] \subseteq {Asks[o][i]}
<1>1. ASSUME NEW o \in Searches
      PROVE  /\ Len(Asks[o]) \in Nat /\ DOMAIN Asks[o] = 1..Len(Asks[o])
             /\ \A i \in DOMAIN Asks[o] : Reached[o][i] \subseteq Machines
  <2>1. /\ Asks[o] \in Seq(Machines \cup Networks) /\ Reached[o] \in Seq(SUBSET Machines)
        /\ Len(Reached[o]) = Len(Asks[o])
    BY DiscoveryAssumption
  <2>2. Len(Asks[o]) \in Nat /\ DOMAIN Asks[o] = 1..Len(Asks[o])
    BY <2>1
  <2>3. \A i \in 1..Len(Reached[o]) : Reached[o][i] \in SUBSET Machines
    BY <2>1
  <2> QED BY <2>1, <2>2, <2>3
<1>2. ASSUME NEW o \in Sweeps, NEW i \in DOMAIN Asks[o]
      PROVE  Asks[o][i] \in Machines /\ Reached[o][i] \subseteq {Asks[o][i]}
  BY DiscoveryAssumption
<1>3. Sweeps \subseteq Searches
  BY DiscoveryAssumption
<1> QED BY <1>1, <1>2, <1>3

LEMMA SearchType ==
    ASSUME SearchInv, NEW o \in Searches
    PROVE  /\ search[o] \in SearchRecords
           /\ search[o].pos \in Nat /\ search[o].pos >= 1
           /\ search[o].todo \in Seq(Services)
           /\ SearchOK(o)
BY DEF SearchInv, SearchOK, SearchRecords

LEMMA TransType ==
    ASSUME NEW o \in Searches, NEW i \in Nat
    PROVE  /\ TransId(o, i) \in Int
           /\ \A j \in Nat : TransId(o, i) = TransId(o, j) => i = j
BY DEF TransId

LEMMA NamesType ==
    \A ip \in Machines : Names[ip] \in Seq(Services) /\ Range(Names[ip]) \subseteq Services
<1> SUFFICES ASSUME NEW ip \in Machines
             PROVE  Names[ip] \in Seq(Services) /\ Range(Names[ip]) \subseteq Services
  OBVIOUS
<1>1. Range(Names[ip]) \subseteq Services
  BY DEF Services
<1>2. Names[ip] \in Seq(Range(Names[ip]))
  BY DiscoveryAssumption
<1> QED BY <1>1, <1>2

LEMMA NoNames == <<>> \in Seq(Services)
OBVIOUS

(* What is left of a list. *)
LEMMA TodoType ==
    ASSUME NEW names \in Seq(Services), names # <<>>
    PROVE  /\ Head(names) \in Services /\ Head(names) \in Range(names)
           /\ Tail(names) \in Seq(Services) /\ Range(Tail(names)) \subseteq Range(names)
           /\ Len(names) > 1 => Tail(names) # <<>>
<1>1. /\ Len(names) \in Nat /\ Len(names) >= 1 /\ DOMAIN names = 1..Len(names)
      /\ Head(names) = names[1] /\ Head(names) \in Services
  OBVIOUS
<1>2. /\ Tail(names) \in Seq(Services) /\ DOMAIN Tail(names) = 1..(Len(names) - 1)
      /\ \A i \in 1..(Len(names) - 1) : Tail(names)[i] = names[i + 1]
  OBVIOUS
<1>3. Head(names) \in Range(names)
  BY <1>1 DEF Range
<1>4. Range(Tail(names)) \subseteq Range(names)
  <2> SUFFICES ASSUME NEW i \in 1..(Len(names) - 1)
               PROVE  Tail(names)[i] \in Range(names)
    BY <1>2 DEF Range
  <2>1. i + 1 \in DOMAIN names /\ Tail(names)[i] = names[i + 1]
    BY <1>1, <1>2
  <2> QED BY <2>1 DEF Range
<1>5. Len(names) > 1 => Tail(names) # <<>>
  <2>1. Len(names) > 1 => 1 \in DOMAIN Tail(names)
    BY <1>1, <1>2
  <2>2. DOMAIN <<>> = {}
    OBVIOUS
  <2> QED BY <2>1, <2>2
<1> QED BY <1>1, <1>2, <1>3, <1>4, <1>5

LEMMA NobodyType == Nobody.who = NoTask /\ Nobody.ip = NoTask /\ Nobody.list = {}
BY DEF Nobody

LEMMA RestingType ==
    /\ Resting \in ScreenRecords
    /\ Resting.at = "resting" /\ Resting.left = {} /\ Resting.stale = FALSE
BY DEF Resting, ScreenRecords

(* The next address, from any step of the search.                          *)
LEMMA NextQueryType ==
    ASSUME SearchInv, NEW o \in Searches, NextQuery(o)
    PROVE  /\ search' \in [Searches -> SearchRecords]
           /\ search'[o].at = "ask" /\ search'[o].pos \in Nat /\ search'[o].pos >= 1
           /\ \A p \in Searches : p # o => search'[p] = search[p]
<1> DEFINE r == [NoSearch EXCEPT !.pos = search[o].pos + 1]
<1>1. r \in SearchRecords /\ r.at = "ask" /\ r.pos \in Nat /\ r.pos >= 1
  <2>1. r = [at |-> "ask", pos |-> search[o].pos + 1, ip |-> NoTask, todo |-> <<>>]
    BY DEF NoSearch
  <2>2. search[o].pos + 1 \in Nat /\ search[o].pos + 1 >= 1
    BY SearchType
  <2> HIDE DEF r
  <2> QED BY <2>1, <2>2, NoNames DEF SearchRecords
<1>2. search' = [search EXCEPT ![o] = r]
  BY DEF NextQuery
<1> HIDE DEF r
<1> QED BY <1>1, <1>2 DEF SearchInv

(* A step of a search o that is not inside addServiceData keeps what holds *)
(* of the others.                                                          *)
LEMMA SearchMoves ==
    ASSUME SearchInv, NEW o \in Searches, UNCHANGED cast,
           search' \in [Searches -> SearchRecords], SearchOK(o)',
           \A p \in Searches : p # o => search'[p] = search[p],
           air' \subseteq Packets, \A p \in air' : AirOK(p)
    PROVE  SearchInv'
<1>1. ASSUME NEW p \in Searches PROVE SearchOK(p)'
  <2>1. CASE p # o
    BY <2>1 DEF SearchInv, SearchOK
  <2> QED BY <2>1
<1> QED BY <1>1 DEF SearchInv, AirOK

LEMMA TableStays ==
    ASSUME TableInv, UNCHANGED tableVars, NEW o \in Searches,
           adding # Nobody => adding.who # o,
           \A p \in Searches : p # o => search'[p] = search[p]
    PROVE  TableInv'
<1>1. UNCHANGED <<table, adding, serial>>
  BY DEF tableVars
<1>2. AddingOK'
  BY <1>1 DEF TableInv, AddingOK, AddingRecords
<1> QED BY <1>1, <1>2 DEF TableInv, SerialOK

LEMMA ScreenStays ==
    ASSUME ScreenOK, UNCHANGED <<table, adding, screen, pending, shown>>
    PROVE  ScreenOK'
BY DEF ScreenOK, Listed

(* addServiceData is for whoever is in "add". *)
LEMMA NotAdding ==
    ASSUME TableInv, NEW o \in Searches, search[o].at # "add"
    PROVE  adding # Nobody => adding.who # o
BY DEF TableInv, AddingOK

-------------------------------------------------------------------------------
(***************************************************************************)
(* The searches.                                                           *)
(***************************************************************************)
LEMMA QueryInv ==
    ASSUME DiscoveryInv, NEW t \in PoolThreads, NEW o \in Searches, Query(t, o)
    PROVE  DiscoveryInv'
<1>0. ThreadsInv /\ SearchInv /\ TableInv /\ ScreenOK
  BY DEF DiscoveryInv
<1>1. /\ search[o].at = "ask" /\ search[o].pos <= Len(Asks[o])
      /\ UNCHANGED <<cast, threadVars, tableVars>>
      /\ UNCHANGED <<table, adding, screen, pending, shown>>
  BY DEF Query, Searching, tableVars, screenVars
<1>2. /\ search[o] \in SearchRecords /\ search[o].pos \in Nat
      /\ search[o].pos >= 1 /\ search[o].pos \in DOMAIN Asks[o]
  BY <1>0, <1>1, SearchType, AsksType
<1>3. ASSUME /\ search' \in [Searches -> SearchRecords] /\ SearchOK(o)'
             /\ \A p \in Searches : p # o => search'[p] = search[p]
             /\ air' \subseteq Packets /\ \A p \in air' : AirOK(p)
      PROVE  DiscoveryInv'
  <2>1. SearchInv'
    BY <1>0, <1>1, <1>3, SearchMoves
  <2>2. TableInv'
    BY <1>0, <1>1, <1>3, NotAdding, TableStays
  <2> QED BY <1>0, <1>1, <2>1, <2>2, ThreadsStutter, ScreenStays DEF DiscoveryInv
<1>4. CASE /\ search' = [search EXCEPT ![o].at = "listen"]
           /\ air' = air \cup {[trans |-> TransId(o, search[o].pos), from |-> ip, to |-> o,
                                pos |-> search[o].pos] : ip \in Reached[o][search[o].pos]}
  <2> DEFINE r == [search[o] EXCEPT !.at = "listen"]
             pos == search[o].pos
  <2>1. /\ r \in SearchRecords /\ r.at = "listen" /\ r.pos = pos
    BY <1>2 DEF SearchRecords
  <2>2. search' = [search EXCEPT ![o] = r]
    BY <1>4
  <2> HIDE DEF r
  <2>3. /\ search' \in [Searches -> SearchRecords] /\ search'[o].at = "listen" /\ search'[o].pos = pos
        /\ \A p \in Searches : p # o => search'[p] = search[p]
    BY <1>0, <2>1, <2>2 DEF SearchInv
  <2>4. ASSUME NEW ip \in Reached[o][pos]
        PROVE  LET p == [trans |-> TransId(o, pos), from |-> ip, to |-> o, pos |-> pos]
               IN  p \in Packets /\ AirOK(p)
    <3>1. ip \in Machines /\ TransId(o, pos) \in Int
      BY <1>2, AsksType, TransType
    <3> QED BY <1>2, <3>1 DEF Packets, AirOK
  <2>5. air' \subseteq Packets /\ \A p \in air' : AirOK(p)
    BY <1>0, <1>4, <2>4 DEF SearchInv
  <2> QED BY <1>2, <1>3, <2>3, <2>5 DEF SearchOK
<1>5. CASE o \in Sweeps /\ NextQuery(o) /\ UNCHANGED air
  <2>1. SearchOK(o)'
    BY <1>0, <1>5, NextQueryType DEF SearchOK
  <2> QED BY <1>0, <1>3, <1>5, <2>1, NextQueryType DEF SearchInv
<1>6. CASE search' = [search EXCEPT ![o].pos = Len(Asks[o]) + 1] /\ UNCHANGED air
  <2> DEFINE r == [search[o] EXCEPT !.pos = Len(Asks[o]) + 1]
  <2>1. /\ r \in SearchRecords /\ r.at = "ask" /\ r.pos >= 1
    BY <1>1, <1>2, AsksType DEF SearchRecords
  <2>2. search' = [search EXCEPT ![o] = r]
    BY <1>6
  <2> HIDE DEF r
  <2>3. /\ search' \in [Searches -> SearchRecords] /\ search'[o].at = "ask" /\ search'[o].pos >= 1
        /\ \A p \in Searches : p # o => search'[p] = search[p]
    BY <1>0, <2>1, <2>2 DEF SearchInv
  <2> QED BY <1>0, <1>3, <1>6, <2>3 DEF SearchInv, SearchOK
<1> QED BY <1>4, <1>5, <1>6 DEF Query

LEMMA StopListeningInv ==
    ASSUME DiscoveryInv, NEW t \in PoolThreads, NEW o \in Searches, StopListening(t, o)
    PROVE  DiscoveryInv'
<1>0. ThreadsInv /\ SearchInv /\ TableInv /\ ScreenOK
  BY DEF DiscoveryInv
<1>1. /\ search[o].at = "listen" /\ NextQuery(o)
      /\ UNCHANGED <<cast, air, threadVars, tableVars>>
      /\ UNCHANGED <<table, adding, screen, pending, shown>>
  BY DEF StopListening, Searching, tableVars, screenVars
<1>2. SearchOK(o)'
  BY <1>0, <1>1, NextQueryType DEF SearchOK
<1>3. SearchInv'
  <2>1. air' \subseteq Packets /\ \A p \in air' : AirOK(p)
    BY <1>0, <1>1 DEF SearchInv
  <2> QED BY <1>0, <1>1, <1>2, <2>1, NextQueryType, SearchMoves
<1>4. TableInv'
  BY <1>0, <1>1, NextQueryType, NotAdding, TableStays
<1> QED BY <1>0, <1>1, <1>3, <1>4, ThreadsStutter, ScreenStays DEF DiscoveryInv

(* Whose answer is taken for that of ip: that of ip, or of a machine that  *)
(* the transaction id does not tell apart.                                 *)
LEMMA ExtractTheirs ==
    ASSUME SearchInv, NEW o \in Searches, search[o].at = "listen",
           NEW p \in air, Extract(p, o) # <<>>
    PROVE  LET ip == IF o \in Sweeps THEN Asks[o][search[o].pos] ELSE p.from
           IN  ip \in Machines /\ Extract(p, o) \in Seq(Services) /\ Theirs(ip, Range(Extract(p, o)))
<1> DEFINE i == search[o].pos
<1>1. /\ p.to \in Searches /\ p.pos \in Nat /\ p.from \in Machines
      /\ p.pos \in DOMAIN Asks[p.to] /\ p.from \in Reached[p.to][p.pos]
      /\ p.trans = TransId(p.to, p.pos)
  BY DEF SearchInv, AirOK, Packets
<1>2. i \in Nat /\ i \in DOMAIN Asks[o]
  BY SearchType DEF SearchOK
<1>3. p.trans = TransId(o, i) /\ Extract(p, o) = Names[p.from]
  BY DEF Extract
<1>4. Names[p.from] \in Seq(Services)
  BY <1>1, NamesType
<1>5. CASE o \in Sweeps
  <2> DEFINE ip == Asks[o][i]
  <2>1. ip \in Machines
    BY <1>2, <1>5, AsksType
  <2>2. CASE p.to = o
    <3>1. p.pos = i
      BY <1>1, <1>2, <1>3, <2>2, TransType
    <3>2. p.from = ip
      BY <1>1, <1>5, <2>2, <3>1, AsksType
    <3> QED BY <1>3, <1>4, <1>5, <2>1, <3>2 DEF Theirs
  <2>3. CASE p.to # o
    <3>1. Confused(ip, p.from)
      BY <1>1, <1>2, <1>3, <1>5, <2>3 DEF Confused
    <3> QED BY <1>1, <1>3, <1>4, <1>5, <2>1, <3>1 DEF Theirs
  <2> QED BY <2>2, <2>3
<1>6. CASE o \notin Sweeps
  BY <1>1, <1>3, <1>4, <1>6 DEF Theirs
<1> QED BY <1>5, <1>6

LEMMA ReceiveInv ==
    ASSUME DiscoveryInv, NEW t \in PoolThreads, NEW o \in Searches, Receive(t, o)
    PROVE  DiscoveryInv'
<1>0. ThreadsInv /\ SearchInv /\ TableInv /\ ScreenOK
  BY DEF DiscoveryInv
<1>1. /\ search[o].at = "listen"
      /\ UNCHANGED <<cast, threadVars, tableVars>>
      /\ UNCHANGED <<table, adding, screen, pending, shown>>
  BY DEF Receive, Searching, tableVars, screenVars
<1>2. PICK p \in air :
        /\ air' = air \ {p}
        /\ IF Extract(p, o) # <<>>
           THEN search' = [search EXCEPT ![o].at = "add", ![o].todo = Extract(p, o),
                              ![o].ip = IF o \in Sweeps THEN Asks[o][search[o].pos] ELSE p.from]
           ELSE IF o \in Sweeps THEN NextQuery(o) ELSE UNCHANGED search
  BY DEF Receive
<1>3. ASSUME /\ search' \in [Searches -> SearchRecords] /\ SearchOK(o)'
             /\ \A q \in Searches : q # o => search'[q] = search[q]
      PROVE  DiscoveryInv'
  <2>1. SearchInv'
    <3>1. air' \subseteq Packets /\ \A q \in air' : AirOK(q)
      BY <1>0, <1>2 DEF SearchInv
    <3> QED BY <1>0, <1>1, <1>3, <3>1, SearchMoves
  <2>2. TableInv'
    BY <1>0, <1>1, <1>3, NotAdding, TableStays
  <2> QED BY <1>0, <1>1, <2>1, <2>2, ThreadsStutter, ScreenStays DEF DiscoveryInv
<1>4. CASE Extract(p, o) # <<>>
  <2> DEFINE ip == IF o \in Sweeps THEN Asks[o][search[o].pos] ELSE p.from
             names == Extract(p, o)
             r == [search[o] EXCEPT !.at = "add", !.todo = names, !.ip = ip]
  <2>1. ip \in Machines /\ names \in Seq(Services) /\ Theirs(ip, Range(names)) /\ names # <<>>
    BY <1>0, <1>1, <1>4, ExtractTheirs
  <2>2. search' = [search EXCEPT ![o] = r]
    BY <1>2, <1>4
  <2> HIDE DEF ip, names
  <2>3. search[o] \in SearchRecords /\ search[o].pos >= 1 /\ search[o].pos \in DOMAIN Asks[o]
    BY <1>0, <1>1, SearchType DEF SearchOK
  <2>4. /\ r \in SearchRecords /\ r.at = "add" /\ r.todo = names /\ r.ip = ip
        /\ r.pos = search[o].pos
    BY <2>1, <2>3 DEF SearchRecords
  <2> HIDE DEF r
  <2>5. /\ search' \in [Searches -> SearchRecords] /\ search'[o] = r
        /\ \A q \in Searches : q # o => search'[q] = search[q]
    BY <1>0, <2>2, <2>4 DEF SearchInv
  <2>6. SearchOK(o)'
    BY <2>1, <2>3, <2>4, <2>5 DEF SearchOK, Theirs
  <2> QED BY <1>3, <2>5, <2>6
<1>5. CASE Extract(p, o) = <<>> /\ o \in Sweeps
  <2>1. SearchOK(o)'
    BY <1>0, <1>2, <1>5, NextQueryType DEF SearchOK
  <2> QED BY <1>0, <1>2, <1>3, <1>5, <2>1, NextQueryType
<1>6. CASE Extract(p, o) = <<>> /\ o \notin Sweeps
  <2>1. SearchOK(o)'
    BY <1>0, <1>2, <1>6, SearchType DEF SearchOK
  <2> QED BY <1>0, <1>2, <1>3, <1>6, <2>1 DEF SearchInv
<1> QED BY <1>4, <1>5, <1>6

-------------------------------------------------------------------------------
(***************************************************************************)
(* The table.                                                              *)
(***************************************************************************)
LEMMA StaleScreen ==
    ASSUME ScreenOK,
           screen' = [screen EXCEPT !.stale = screen.at = "reading" /\ (@ \/ table # table')]
    PROVE  screen' \in ScreenRecords /\ screen'.at = screen.at
<1> DEFINE stale == screen.at = "reading" /\ (screen.stale \/ table # table')
<1>1. screen' = [screen EXCEPT !.stale = stale] /\ stale \in BOOLEAN
  OBVIOUS
<1> HIDE DEF stale
<1> QED BY <1>1 DEF ScreenOK, ScreenRecords

LEMMA EnterAddInv ==
    ASSUME DiscoveryInv, NEW t \in PoolThreads, NEW o \in Searches, EnterAdd(t, o)
    PROVE  DiscoveryInv'
<1>0. ThreadsInv /\ SearchInv /\ TableInv /\ ScreenOK
  BY DEF DiscoveryInv
<1> DEFINE ip == search[o].ip
<1>1. /\ search[o].at = "add" /\ adding = Nobody
      /\ adding' = [who |-> o, ip |-> ip, list |-> table[ip]]
      /\ table' = [table EXCEPT ![ip] = {}]
      /\ screen' = [screen EXCEPT !.stale = screen.at = "reading" /\ (@ \/ table # table')]
      /\ UNCHANGED <<cast, threadVars, search, air>>
      /\ UNCHANGED <<serial, pending, shown>>
  BY DEF EnterAdd, Searching, netVars
<1>2. ip \in Machines /\ ip # NoTask
  BY <1>0, <1>1, SearchType, DiscoveryAssumption DEF SearchOK
<1>3. /\ adding' \in AddingRecords /\ adding'.who = o /\ adding'.ip = ip
      /\ adding'.list = table[ip] /\ adding' # Nobody
  <2>1. table[ip] \subseteq Services
    BY <1>0, <1>2 DEF TableInv
  <2>2. adding'.ip = ip
    BY <1>1
  <2> QED BY <1>1, <1>2, <2>1, <2>2, NobodyType DEF AddingRecords
<1>4. /\ table' \in [Machines -> SUBSET Services] /\ table'[ip] = {}
      /\ \A m \in Machines : m # ip => table'[m] = table[m]
  BY <1>0, <1>1, <1>2 DEF TableInv
<1>5. SearchInv'
  BY <1>0, <1>1 DEF SearchInv, SearchOK, AirOK
<1>6. TableInv'
  <2>1. ASSUME NEW m \in Machines PROVE Theirs(m, table[m])'
    BY <1>0, <1>4 DEF TableInv, Theirs
  <2>2. AddingOK'
    BY <1>0, <1>1, <1>2, <1>3, <1>4 DEF TableInv, AddingOK, Theirs
  <2>3. SerialOK'
    <3>1. adding'.list = serial[ip]
      BY <1>0, <1>1, <1>2, <1>3, NobodyType DEF TableInv, SerialOK
    <3> QED BY <1>0, <1>1, <1>2, <1>3, <1>4, <3>1, NobodyType, DiscoveryAssumption
            DEF TableInv, SerialOK
  <2> QED BY <1>4, <2>1, <2>2, <2>3 DEF TableInv
<1>7. ScreenOK'
  BY <1>0, <1>1, <1>3, StaleScreen DEF ScreenOK
<1> QED BY <1>0, <1>1, <1>5, <1>6, <1>7, ThreadsStutter DEF DiscoveryInv

LEMMA LeaveAddInv ==
    ASSUME DiscoveryInv, NEW t \in PoolThreads, NEW o \in Searches, LeaveAdd(t, o)
    PROVE  DiscoveryInv'
<1>0. ThreadsInv /\ SearchInv /\ TableInv /\ ScreenOK
  BY DEF DiscoveryInv
<1> DEFINE ip == adding.ip
<1>1. /\ search[o].at = "add" /\ adding.who = o
      /\ screen' = [screen EXCEPT !.stale = screen.at = "reading" /\ (@ \/ table # table')]
      /\ adding' = Nobody
      /\ UNCHANGED <<cast, threadVars, air, shown>>
  BY DEF LeaveAdd, Searching
<1> DEFINE name == Head(search[o].todo)
<1>2. /\ table' = [table EXCEPT ![ip] = PutBack(name)]
      /\ serial' = [serial EXCEPT ![ip] = IF name \in @ THEN {} ELSE @ \cup {name}]
      /\ pending' = TRUE
      /\ AfterAdd(o)
  BY DEF LeaveAdd, DataChange
<1>3. /\ adding # Nobody /\ adding \in AddingRecords /\ ip \in Machines /\ ip = search[o].ip
      /\ adding.list \subseteq Services /\ Theirs(ip, adding.list) /\ table[ip] = {}
  <2>1. o # NoTask
    BY ThreadsAssumption DEF Searches
  <2>2. adding # Nobody
    BY <1>1, <2>1, NobodyType
  <2> QED BY <1>0, <1>1, <2>2 DEF TableInv, AddingOK, AddingRecords
<1>4. /\ search[o] \in SearchRecords /\ search[o].pos \in DOMAIN Asks[o] /\ search[o].pos >= 1
      /\ search[o].todo \in Seq(Services) /\ search[o].todo # <<>> /\ Theirs(ip, Range(search[o].todo))
      /\ name \in Services /\ name \in Range(search[o].todo)
      /\ Tail(search[o].todo) \in Seq(Services) /\ Range(Tail(search[o].todo)) \subseteq Range(search[o].todo)
      /\ Len(search[o].todo) > 1 => Tail(search[o].todo) # <<>>
  BY <1>0, <1>1, <1>3, SearchType, TodoType DEF SearchOK
<1>5. SearchInv'
  <2>1. SUFFICES ASSUME TRUE
                 PROVE  /\ search' \in [Searches -> SearchRecords] /\ SearchOK(o)'
                        /\ \A p \in Searches : p # o => search'[p] = search[p]
    <3>1. air' \subseteq Packets /\ \A p \in air' : AirOK(p)
      BY <1>0, <1>1 DEF SearchInv
    <3> QED BY <1>0, <1>1, <2>1, <3>1, SearchMoves
  <2>2. CASE Len(search[o].todo) > 1 /\ search' = [search EXCEPT ![o].todo = Tail(@)]
    <3> DEFINE r == [search[o] EXCEPT !.todo = Tail(search[o].todo)]
    <3>1. /\ r \in SearchRecords /\ r.at = "add" /\ r.ip = ip /\ r.pos = search[o].pos
          /\ r.todo = Tail(search[o].todo)
      BY <1>1, <1>3, <1>4 DEF SearchRecords
    <3>2. search' = [search EXCEPT ![o] = r]
      BY <2>2
    <3> HIDE DEF r
    <3>3. /\ search' \in [Searches -> SearchRecords] /\ search'[o] = r
          /\ \A p \in Searches : p # o => search'[p] = search[p]
      BY <1>0, <3>1, <3>2 DEF SearchInv
    <3>4. SearchOK(o)'
      BY <1>3, <1>4, <2>2, <3>1, <3>3 DEF SearchOK, Theirs
    <3> QED BY <3>3, <3>4
  <2>3. CASE NextQuery(o)
    BY <1>0, <2>3, NextQueryType DEF SearchOK
  <2>4. CASE search' = [search EXCEPT ![o].at = "listen", ![o].todo = <<>>, ![o].ip = NoTask]
    <3> DEFINE r == [search[o] EXCEPT !.at = "listen", !.todo = <<>>, !.ip = NoTask]
    <3>1. /\ r \in SearchRecords /\ r.at = "listen" /\ r.pos = search[o].pos
      BY <1>4, NoNames DEF SearchRecords
    <3>2. search' = [search EXCEPT ![o] = r]
      BY <2>4
    <3> HIDE DEF r
    <3>3. /\ search' \in [Searches -> SearchRecords] /\ search'[o] = r
          /\ \A p \in Searches : p # o => search'[p] = search[p]
      BY <1>0, <3>1, <3>2 DEF SearchInv
    <3> QED BY <1>4, <3>1, <3>3 DEF SearchOK
  <2> QED BY <1>2, <2>2, <2>3, <2>4 DEF AfterAdd
<1>6. TableInv'
  <2> DEFINE back == PutBack(name)
  <2>1. /\ name \in adding.list => back = {}
        /\ name \notin adding.list => back = adding.list \cup {name}
    BY DEF PutBack
  <2>2. back \subseteq Services /\ Theirs(ip, back)
    BY <1>2, <1>3, <1>4, <2>1 DEF Theirs
  <2> HIDE DEF back
  <2>3. /\ table' \in [Machines -> SUBSET Services] /\ table'[ip] = back
        /\ \A m \in Machines : m # ip => table'[m] = table[m]
    <3>1. table' = [table EXCEPT ![ip] = back]
      BY <1>2 DEF back
    <3> QED BY <1>0, <1>3, <2>2, <3>1 DEF TableInv
  <2>4. ASSUME NEW m \in Machines PROVE Theirs(m, table[m])'
    BY <1>0, <2>2, <2>3 DEF TableInv, Theirs
  <2>5. AddingOK'
    BY <1>1 DEF AddingOK
  <2>6. SerialOK'
    <3>1. serial \in [Machines -> SUBSET Services] /\ adding.list = serial[ip]
      BY <1>0, <1>3 DEF TableInv, SerialOK
    <3>2. /\ serial' \in [Machines -> SUBSET Services] /\ serial'[ip] = back
          /\ \A m \in Machines : m # ip => serial'[m] = serial[m]
      BY <1>2, <1>3, <1>4, <2>1, <3>1
    <3> QED BY <1>0, <1>1, <2>3, <3>2 DEF TableInv, SerialOK
  <2> QED BY <2>3, <2>4, <2>5, <2>6 DEF TableInv
<1>7. ScreenOK'
  BY <1>0, <1>1, <1>2, StaleScreen DEF ScreenOK
<1> QED BY <1>0, <1>1, <1>5, <1>6, <1>7, ThreadsStutter DEF DiscoveryInv

-------------------------------------------------------------------------------
(***************************************************************************)
(* The screen, and steps of the threads only.                              *)
(***************************************************************************)
LEMMA ListedIs ==
    ASSUME NEW ips, NEW x
    PROVE  x \in Listed(ips) <=> \E ip \in ips : \E name \in table[ip] : x = <<ip, name>>
BY DEF Listed

LEMMA ScreenStepInv ==
    ASSUME DiscoveryInv, ScreenStep
    PROVE  DiscoveryInv'
<1>0. ThreadsInv /\ SearchInv /\ TableInv /\ ScreenOK
  BY DEF DiscoveryInv
<1>1. /\ UNCHANGED <<cast, threadVars, search, air>>
      /\ UNCHANGED <<table, adding, serial>>
  BY DEF ScreenStep, Refresh, ShowEntry, ShowList, ScreenDies, netVars, tableVars
<1>2. SearchInv' /\ TableInv'
  <2>1. SearchInv'
    BY <1>0, <1>1 DEF SearchInv, SearchOK, AirOK
  <2>2. AddingOK' /\ SerialOK'
    BY <1>0, <1>1 DEF TableInv, AddingOK, SerialOK
  <2> QED BY <1>0, <1>1, <2>1, <2>2 DEF TableInv, Theirs
<1>3. ASSUME NEW ips PROVE Listed(ips)' = Listed(ips)
  BY <1>1 DEF Listed
<1>4. CASE Refresh
  <2> DEFINE left == {ip \in Machines : table[ip] # {}}
  <2>1. /\ pending' = FALSE /\ shown' = {}
        /\ screen' = [at |-> "reading", left |-> left, stale |-> FALSE]
    BY <1>4 DEF Refresh
  <2>2. shown' = Listed(Machines \ left)
    BY <2>1, ListedIs
  <2>3. screen' \in ScreenRecords /\ screen'.at = "reading" /\ screen'.stale = FALSE /\ screen'.left = left
    BY <2>1 DEF ScreenRecords
  <2>4. shown' = Listed(Machines \ screen.left)'
    BY <1>1, <2>2, <2>3 DEF Listed
  <2>5. ScreenOK'
    BY <2>1, <2>3, <2>4 DEF ScreenOK
  <2> QED BY <1>0, <1>1, <1>2, <2>5, ThreadsStutter DEF DiscoveryInv
<1>5. CASE ShowEntry
  <2>1. PICK ip \in screen.left :
          /\ shown' = shown \cup {<<ip, name>> : name \in table[ip]}
          /\ screen' = [screen EXCEPT !.left = @ \ {ip}]
    BY <1>5 DEF ShowEntry
  <2>2. screen.at = "reading" /\ ~screen.stale /\ pending' = pending /\ screen \in ScreenRecords
        /\ ip \in Machines
    BY <1>0, <1>5, <2>1 DEF ShowEntry, ScreenOK, ScreenRecords
  <2>3. /\ screen' \in ScreenRecords /\ screen'.at = "reading" /\ ~screen'.stale
        /\ screen'.left = screen.left \ {ip}
    BY <2>1, <2>2 DEF ScreenRecords
  <2>4. ASSUME shown = Listed(Machines \ screen.left)
        PROVE  shown' = Listed(Machines \ screen'.left)
    <3>1. Machines \ screen'.left = (Machines \ screen.left) \cup {ip}
      BY <2>1, <2>2, <2>3
    <3>2. \A x : x \in {<<ip, name>> : name \in table[ip]} <=> \E name \in table[ip] : x = <<ip, name>>
      OBVIOUS
    <3> QED BY <2>1, <2>4, <3>1, <3>2, ListedIs
  <2>5. Listed(Machines \ screen.left)' = Listed(Machines \ screen'.left)
    BY <1>1 DEF Listed
  <2>6. ScreenOK'
    BY <1>0, <1>1, <2>2, <2>3, <2>4, <2>5 DEF ScreenOK
  <2> QED BY <1>0, <1>1, <1>2, <2>6, ThreadsStutter DEF DiscoveryInv
<1>6. CASE ShowList
  <2>1. screen.at = "reading" /\ screen.left = {} /\ screen' = Resting /\ UNCHANGED <<pending, shown>>
    BY <1>6 DEF ShowList
  <2>2. Machines \ screen.left = Machines
    BY <2>1
  <2>3. ScreenOK'
    BY <1>0, <1>1, <1>3, <2>1, <2>2, RestingType DEF ScreenOK
  <2> QED BY <1>0, <1>1, <1>2, <2>3, ThreadsStutter DEF DiscoveryInv
<1>7. CASE ScreenDies
  <2>1. screen' = [Resting EXCEPT !.at = "dead"] /\ UNCHANGED <<pending, shown>>
    BY <1>7 DEF ScreenDies
  <2>2. screen' \in ScreenRecords /\ screen'.at = "dead"
    BY <2>1, RestingType DEF ScreenRecords
  <2>3. ScreenOK'
    BY <1>0, <2>1, <2>2 DEF ScreenOK
  <2> QED BY <1>0, <1>1, <1>2, <2>3, ThreadsStutter DEF DiscoveryInv
<1> QED BY <1>4, <1>5, <1>6, <1>7 DEF ScreenStep

LEMMA OthersStayInv ==
    ASSUME DiscoveryInv, ThreadsInv', UNCHANGED <<cast, netVars, tableVars, screenVars>>
    PROVE  DiscoveryInv'
<1>1. UNCHANGED <<cast, search, air, table, adding, serial, screen, pending, shown>>
  BY DEF netVars, tableVars, screenVars
<1>2. SearchInv'
  BY <1>1 DEF DiscoveryInv, SearchInv, SearchOK, AirOK
<1>3. TableInv'
  BY <1>1 DEF DiscoveryInv, TableInv, AddingOK, SerialOK, Theirs
<1>4. ScreenOK'
  BY <1>1, ScreenStays DEF DiscoveryInv
<1> QED BY <1>2, <1>3, <1>4 DEF DiscoveryInv

-------------------------------------------------------------------------------
(***************************************************************************)
(* The invariant.                                                          *)
(***************************************************************************)
LEMMA DiscoveryInit == Init => DiscoveryInv
<1> SUFFICES ASSUME Init PROVE DiscoveryInv
  OBVIOUS
<1>1. /\ cast \in Casts /\ ThreadsInit
      /\ search = [o \in Searches |-> NoSearch] /\ air = {}
      /\ table = [ip \in Machines |-> {}] /\ adding = Nobody
      /\ screen = Resting /\ pending = FALSE /\ shown = {} /\ serial = [ip \in Machines |-> {}]
  BY DEF Init
<1>2. SearchInv
  <2>1. NoSearch \in SearchRecords /\ NoSearch.at = "ask" /\ NoSearch.pos = 1
    BY DEF NoSearch, SearchRecords
  <2> QED BY <1>1, <2>1 DEF SearchInv, SearchOK
<1>3. TableInv
  BY <1>1, NobodyType DEF TableInv, AddingOK, SerialOK, Theirs
<1>4. ScreenOK
  <2>1. shown = Listed(Machines)
    BY <1>1, ListedIs
  <2> QED BY <1>1, <2>1, RestingType DEF ScreenOK
<1> QED BY <1>1, <1>2, <1>3, <1>4, ThreadsInitInv DEF DiscoveryInv

LEMMA CastType ==
    ASSUME DiscoveryInv
    PROVE  /\ cast.starts \subseteq Terminables /\ cast.threads \subseteq PoolThreads
           /\ \A pair \in cast.cancels : pair[1] \in Cancellers /\ pair[2] \in Terminables
BY DiscoveryAssumption DEF DiscoveryInv, SearchInv

LEMMA ThreadStepInv ==
    ASSUME DiscoveryInv, NEW t \in PoolThreads, ThreadStep(t)
    PROVE  DiscoveryInv'
<1>1. CASE (PoolStep(t) \/ RequestStep(t)) /\ OthersStay
  <2>1. ThreadsInv'
    BY <1>1, PoolStepInv DEF DiscoveryInv
  <2> QED BY <1>1, <2>1, OthersStayInv DEF OthersStay
<1>2. ASSUME NEW o \in Searches, SearchStep(t, o)
      PROVE  DiscoveryInv'
  <2>1. CASE EndSearch(t, o)
    <3>1. ThreadsInv'
      BY <2>1, EndInv DEF EndSearch, DiscoveryInv
    <3> QED BY <2>1, <3>1, OthersStayInv DEF EndSearch
  <2> QED BY <1>2, <2>1, QueryInv, ReceiveInv, StopListeningInv, EnterAddInv, LeaveAddInv
          DEF SearchStep
<1> QED BY <1>1, <1>2 DEF ThreadStep

LEMMA DiscoveryStep ==
    ASSUME DiscoveryInv, [Next]_vars
    PROVE  DiscoveryInv'
<1>1. CASE StartSome
  <2>1. PICK o \in cast.starts : Start(o) /\ OthersStay
    BY <1>1 DEF StartSome
  <2>2. ThreadsInv'
    BY <2>1, CastType, StartInv DEF DiscoveryInv
  <2> QED BY <2>1, <2>2, OthersStayInv DEF OthersStay
<1>2. CASE CancelSome
  <2>1. PICK pair \in cast.cancels : Cancel(pair[1], pair[2]) /\ OthersStay
    BY <1>2 DEF CancelSome
  <2>2. ThreadsInv'
    BY <2>1, CastType, CancelInv DEF DiscoveryInv
  <2> QED BY <2>1, <2>2, OthersStayInv DEF OthersStay
<1>3. ASSUME NEW c \in Cancellers, Cancelling(c) PROVE DiscoveryInv'
  <2>1. ThreadsInv'
    BY <1>3, CancelStepInv DEF Cancelling, DiscoveryInv
  <2> QED BY <1>3, <2>1, OthersStayInv DEF Cancelling, OthersStay
<1>4. ASSUME NEW t \in cast.threads, ThreadStep(t) PROVE DiscoveryInv'
  BY <1>4, CastType, ThreadStepInv
<1>5. CASE ScreenStep
  BY <1>5, ScreenStepInv
<1>6. CASE UNCHANGED vars
  <2>1. UNCHANGED threadVars /\ UNCHANGED <<cast, netVars, tableVars, screenVars>>
    BY <1>6 DEF vars
  <2> QED BY <2>1, ThreadsStutter, OthersStayInv DEF DiscoveryInv
<1> QED BY <1>1, <1>2, <1>3, <1>4, <1>5, <1>6 DEF Next

LEMMA DiscoveryInvariant == Spec => []DiscoveryInv
<1>1. Init => DiscoveryInv
  BY DiscoveryInit
<1>2. DiscoveryInv /\ [Next]_vars => DiscoveryInv'
  BY DiscoveryStep
<1> QED BY <1>1, <1>2, PTL DEF Spec

-------------------------------------------------------------------------------
(* Variables keep their types; a thread works on the object it has         *)
(* registered for, a lock object is always found (AsyncTaskManage), and    *)
(* the list that addServiceData has taken out is in the table of nobody.   *)
THEOREM TypeCorrect == Spec => []TypeOK
<1>1. DiscoveryInv => TypeOK
  <2> SUFFICES ASSUME DiscoveryInv PROVE TypeOK
    OBVIOUS
  <2>1. ThreadsTypeOK /\ cast \in Casts
    BY DEF DiscoveryInv, ThreadsInv, SearchInv
  <2>2. search \in [Searches -> [at : {"ask", "listen", "add"}, pos : Nat, ip : Machines \cup {NoTask},
                                 todo : Seq(Services)]]
    BY DEF DiscoveryInv, SearchInv, SearchRecords
  <2>3. table \in [Machines -> SUBSET Services]
    BY DEF DiscoveryInv, TableInv
  <2>4. adding.who # NoTask => table[adding.ip] = {}
    BY NobodyType DEF DiscoveryInv, TableInv, AddingOK
  <2>5. screen.at \in {"resting", "reading", "dead"} /\ pending \in BOOLEAN
    BY DEF DiscoveryInv, ScreenOK, ScreenRecords
  <2> QED BY <2>1, <2>2, <2>3, <2>4, <2>5 DEF TypeOK
<1> QED BY <1>1, DiscoveryInvariant, PTL

(* A cancel that has returned is felt, and once, by the HTTP task that the *)
(* thread of its object has registered, whichever of cancelAsyncTask and   *)
(* registerHttpTask comes later (AsyncTaskManage); but for lost cancels,   *)
(* and for ids of which unlock() has let two threads inside.               *)
THEOREM EveryCancelIsFelt == Spec => []CancelIsFelt
<1>1. DiscoveryInv => CancelIsFelt
  BY CancelFelt DEF DiscoveryInv
<1> QED BY <1>1, DiscoveryInvariant, PTL

(* However many searches call addServiceData at once, the table is what    *)
(* their calls make one after the other (ServiceHelper.addServiceData): no *)
(* service is lost but by a name of its machine that comes again.          *)
THEOREM SearchesAddInTurn == Spec => []AddsAreSerial
<1>1. DiscoveryInv => AddsAreSerial
  BY DEF DiscoveryInv, TableInv, SerialOK, AddsAreSerial
<1> QED BY <1>1, DiscoveryInvariant, PTL

(* Late, lost and foreign answers: the transaction id is all that keeps    *)
(* the services of one machine from another (BroadcastUtils                *)
(* .extractServers), and it does, but for queries of other searches with   *)
(* the same id.                                                            *)
THEOREM MachinesKeepTheirNames == Spec => []NamesAreTheirs
<1>1. DiscoveryInv => NamesAreTheirs
  BY DEF DiscoveryInv, TableInv, Theirs, NamesAreTheirs
<1> QED BY <1>1, DiscoveryInvariant, PTL

(* The screen catches up: when nothing is left to be done, it shows the    *)
(* table, although it reads it without its monitor (TestActivity).         *)
THEOREM ScreenCatchesUp == Spec => []ScreenShowsTable
<1>1. DiscoveryInv => ScreenShowsTable
  BY RestingType DEF DiscoveryInv, ScreenOK, Listed, ScreenShowsTable
<1> QED BY <1>1, DiscoveryInvariant, PTL
===============================================================================

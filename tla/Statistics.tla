----------------------------- MODULE Statistics -----------------------------
(***************************************************************************)
(* The statistics panel (gui/statistics.js) and the stream it subscribes   *)
(* to (Streams.Statistics): the traffic rates, the uptime, and the rows of *)
(* the Mesh-VPN table, which come and go with the peers the node reports.  *)
(*                                                                         *)
(* A row is keyed by the path of its peer, groups included, and labelled   *)
(* by the peer's name alone, which peers of different groups may share.    *)
(***************************************************************************)
EXTENDS Integers, Sequences, FiniteSets, SequencesExt

CONSTANTS
  Path,     \* paths of Mesh-VPN peers
  Label,    \* per path: the peer's name, as its place in the order of names
  NoVpn,    \* a report without mesh_vpn
  Message   \* what the node may report: [uptime, vpn]

Status == {"null", "established"}

ASSUME LabelsAssumption == Label \in [Path -> Nat]
ASSUME MessagesAssumption ==
  \A m \in Message :
    /\ m.uptime \in Nat
    /\ m.vpn # NoVpn =>
         /\ DOMAIN m.vpn \subseteq Path /\ IsFiniteSet(DOMAIN m.vpn)
         /\ \A p \in DOMAIN m.vpn : m.vpn[p] \in Status

VARIABLES
  window,   \* uptimes of the last two reports that were no duplicates
  vpn,      \* mesh_vpn of the last one
  heading,  \* init: heading and table are in the page
  rows      \* of the table, top to bottom

statVars == <<window, vpn, heading, rows>>

Uptime == {m.uptime : m \in Message}
Vpn == {NoVpn} \union {m.vpn : m \in Message}

StatTypeOK ==
  /\ window \in Seq(Uptime) /\ Len(window) <= 2
  /\ vpn \in Vpn
  /\ heading \in BOOLEAN
  /\ rows \in Seq([path : Path, shown : Status])

StatInit == window = <<>> /\ vpn = NoVpn /\ heading = FALSE /\ rows = <<>>

\* The constructor and destroy(): no row of the old panel is left.
NewPanel == window' = <<>> /\ vpn' = NoVpn /\ heading' = FALSE /\ rows' = <<>>
-----------------------------------------------------------------------------
\* Mutant: the row is appended.
MkRowLast(table, r) == Append(table, r)
\* mkRow, sorted: before the first row whose label is greater.
MkRow(table, r) ==
  LET above == {i \in 1 .. Len(table) : \A j \in 1 .. i : Label[r.path] >= Label[table[j].path]}
  IN  InsertAt(table, Cardinality(above) + 1, r)

\* stream.startWith(d).map(path): a new row shows the report it was made for.
NewRow(d, p) == [path |-> p, shown |-> d[p]]

HasRow(table, p) == \E i \in 1 .. Len(table) : table[i].path = p

\* mkMeshVPN: rows of peers that are gone are destroyed; the others, listed in kept,
\* stay in their order and get the report.
Staying(table, d) ==
  {kept \in SetToSeqs({i \in 1 .. Len(table) : table[i].path \in DOMAIN d}) :
     \A j, k \in DOMAIN kept : j < k => kept[j] < kept[k]}
Remaining(table, d, kept) == [k \in DOMAIN kept |-> NewRow(d, table[kept[k]].path)]

\* Mutant: a row is made for every peer of the report.
OrdersOfAll(table, d) == SetToSeqs(DOMAIN d)
\* addGroup lists the peers in the order the node prints them in.
Orders(table, d) == SetToSeqs({p \in DOMAIN d : ~HasRow(table, p)})

Filled(table, d, missing) ==
  LET after[k \in 0 .. Len(missing)] ==
        IF k = 0 THEN table ELSE MkRow(after[k - 1], NewRow(d, missing[k]))
  IN  after[Len(missing)]

MeshVPN(d) ==
  IF d = NoVpn
    THEN heading' = FALSE /\ rows' = <<>>
    ELSE /\ heading' = TRUE
         /\ \E kept \in Staying(rows, d), missing \in Orders(rows, d) :
              rows' = Filled(Remaining(rows, d, kept), d, missing)

\* Mutant: no skipDuplicates.
DuplicateNever(u) == FALSE
\* skipDuplicates on the uptime.
Duplicate(u) == window # <<>> /\ Last(window) = u

\* Mutant: a window that only grows.
SlideNever(w, u) == Append(w, u)
\* slidingWindow(2, 2)
Slide(w, u) == IF Len(w) = 2 THEN <<w[2], u>> ELSE Append(w, u)

Report(m) ==
  /\ ~Duplicate(m.uptime)
  /\ window' = Slide(window, m.uptime)
  /\ vpn' = m.vpn
  /\ MeshVPN(m.vpn)

\* prettyUptime; Math.round rounds half up.
Days(s) == ((s + 30) \div 60) \div 1440
Hours(s) == (((s + 30) \div 60) % 1440) \div 60
\* Mutant: rounded after the hours have been taken off.
MinutesRounded(s) == ((s % 3600) + 30) \div 60
Minutes(s) == ((s + 30) \div 60) % 60
-----------------------------------------------------------------------------
(***************************************************************************)
(* Properties.                                                             *)
(***************************************************************************)
\* deltaUptime never divides by zero, even if the node sends a report again or
\* comes back from a reboot.
RateDefined == Len(window) = 2 => window[2] - window[1] # 0

\* The table has one row for every peer of the last report, with the state
\* reported there, and is in the page exactly if the report has a mesh_vpn.
RowsAreCurrent ==
  /\ heading <=> vpn # NoVpn
  /\ \A i, j \in 1 .. Len(rows) : rows[i].path = rows[j].path => i = j
  /\ {rows[i] : i \in 1 .. Len(rows)} =
       IF vpn = NoVpn THEN {} ELSE {[path |-> p, shown |-> vpn[p]] : p \in DOMAIN vpn}

\* The rows stay in the order of their labels, whatever order peers come and go in.
RowsAreSorted ==
  \A i, j \in 1 .. Len(rows) : i < j => Label[rows[i].path] <= Label[rows[j].path]

\* What is shown of the uptime is a time of day and at most half a minute off.
UptimeIsRounded ==
  \A i \in 1 .. Len(window) :
    LET s == window[i]
        shown == ((Days(s) * 24 + Hours(s)) * 60 + Minutes(s)) * 60
    IN  Hours(s) < 24 /\ Minutes(s) < 60 /\ shown - 30 <= s /\ s < shown + 30
=============================================================================

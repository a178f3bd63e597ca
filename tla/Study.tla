------------------------------- MODULE Study -------------------------------
(***************************************************************************)
(* run_analyze and run_report: the header records and then the pair        *)
(* records of the study directory are read one by one, rolled up per       *)
(* transition, counted and saved, as summary.json and as report.txt, and   *)
(* report.html is made from summary.json.  Children of a diff stage that   *)
(* died may still write records while the directory is read, and a user    *)
(* repeats every stage.                                                    *)
(***************************************************************************)
EXTENDS ChangeKinds, Sequences, FiniteSets, Functions

CONSTANTS
  Ids,         \* transitions: stems of the files of records
  Sources,     \* libraries
  SourceOf,    \* library of a transition
  Pairs,       \* contents a pair record may have
  HeaderData,  \* contents a header record may have
  MaxListed,   \* libraries report.html lists at most: 8
  MaxStudies,  \* bound: how often analyze and report are started
  MaxWrites    \* bound: records written while studies go on

Languages == {"c", "cxx", "unknown"}
NoFile == [file |-> "none"]
Unreadable == [file |-> "unreadable"]  \* another schema or no JSON

SharedObject == [language : Languages, public : Tallies, third_party : Tallies, private_node : Tallies,
                 soname_changed : BOOLEAN, mass_rename : BOOLEAN, debug_info_missing : BOOLEAN]
PairFile(c) ==
  \/ c \in {NoFile, Unreadable}
  \/ /\ DOMAIN c = {"file", "error", "objects"} /\ c.file = "pair"
     /\ c.error \in BOOLEAN /\ c.objects \in Seq(SharedObject)

Diff == [definitions_common : Nat, inline_body_changed : Nat, macro_value_changed : Nat,
         macro_value_changed_nonversion : Nat]
Coverage == [parsed : Nat, with_errors : Nat, with_fatal_error : Nat]
HeaderFile(h) ==
  \/ h \in {NoFile, Unreadable, [file |-> "header", diff |-> FALSE]}
  \/ /\ DOMAIN h = {"file", "diff", "changes", "coverage"} /\ h.file = "header" /\ h.diff = TRUE
     /\ h.changes \in Diff /\ h.coverage \in [{1, 2} -> Coverage]

ASSUME StudyAssumption ==
  /\ IsFiniteSet(Ids) /\ IsFiniteSet(Sources) /\ SourceOf \in [Ids -> Sources]
  /\ {MaxListed, MaxStudies, MaxWrites} \subseteq Nat
  /\ NoFile \in Pairs /\ \A c \in Pairs : PairFile(c)
  /\ NoFile \in HeaderData /\ \A h \in HeaderData : HeaderFile(h)

VARIABLES
  pairs, headers,   \* the files in pairs/ and headers/pairs/
  pc,               \* where the study is
  left,             \* names the walk of the directory has still to give
  loaded,           \* headers: id |-> header record
  all,              \* all: id |-> transition
  errored, objects, \* counters of run_analyze
  summary,          \* summary.json
  report,           \* the study report.txt is of
  html,             \* the figures of report.html
  studies, writes,  \* studies started, records written
  listed,           \* history: both directories could be opened
  disturbed         \* history: ids with a record written since the study began

vars == <<pairs, headers, pc, left, loaded, all, errored, objects, summary, report, html, studies,
          writes, listed, disturbed>>
files == <<pairs, headers>>
outputs == <<summary, report, html>>
counters == <<studies, writes, disturbed>>

None == [id \in {} |-> 0]
NoOutput == [of |-> 0]

Init ==
  /\ pairs \in [Ids -> Pairs] /\ headers \in [Ids -> HeaderData]
  /\ pc = "idle" /\ left = {} /\ loaded = None /\ all = None /\ errored = 0 /\ objects = 0
  /\ listed = TRUE /\ disturbed = {}
  /\ summary = NoOutput /\ report = 0 /\ html = NoOutput
  /\ studies = 0 /\ writes = 0
-----------------------------------------------------------------------------
\* rollup: the tallies of all objects and, with header data, two kinds more.
SumOver(objs, t, k) == SumFunction([n \in DOMAIN objs |-> objs[n][t][k]])
Some(objs, f) == \E n \in DOMAIN objs : objs[n][f]

LanguageOf(objs) ==
  LET found == {objs[n].language : n \in DOMAIN objs}
  IN  IF "cxx" \in found THEN "cxx" ELSE IF "c" \in found THEN "c" ELSE "unknown"

Poor(c) ==
  /\ c.parsed # 0
  /\ 2 * (IF c.with_errors > c.with_fatal_error THEN c.with_errors ELSE c.with_fatal_error) > c.parsed

HasDiff(id) == id \in DOMAIN loaded /\ loaded[id].diff

Rollup(id, p) ==
  LET h == loaded[id].changes
      tally(t) == [k \in ChangeKind |-> SumOver(p.objects, t, k)]
      counts == IF HasDiff(id)
                THEN Add(Add(tally("public"), "inline_body_changed", h.inline_body_changed),
                         "macro_value_changed", h.macro_value_changed_nonversion)
                ELSE tally("public")
  IN  [source |-> SourceOf[id], language |-> LanguageOf(p.objects), counts |-> counts,
       third_party |-> tally("third_party"), private_node |-> tally("private_node"),
       soname_changed |-> Some(p.objects, "soname_changed"),
       mass_rename |-> Some(p.objects, "mass_rename"),
       debug_info_missing |-> Some(p.objects, "debug_info_missing"),
       headers |-> IF HasDiff(id) THEN {h} ELSE {},
       poor |-> HasDiff(id) /\ \E s \in {1, 2} : Poor(loaded[id].coverage[s])]

\* A name is met once, so there is nothing to replace.
Insert(f, id, v) == [x \in DOMAIN f \cup {id} |-> IF x = id THEN v ELSE f[x]]

Names(d) == {id \in Ids : d[id] # NoFile}

\* A directory that cannot be opened is taken for an empty one.
Open(d, before) ==
  \/ left' = Names(d) /\ listed' = before
  \/ left' = {} /\ listed' = FALSE

Start ==
  /\ pc = "idle" /\ studies < MaxStudies
  /\ pc' = "headers" /\ studies' = studies + 1
  /\ Open(headers, TRUE)
  /\ UNCHANGED <<files, loaded, all, errored, objects, outputs, writes, disturbed>>

\* One entry of the directory of header records; one that does not load is left out in silence.
ReadHeader ==
  /\ pc = "headers"
  /\ \E id \in left :
       /\ left' = left \ {id}
       /\ loaded' = IF headers[id].file = "header" THEN Insert(loaded, id, headers[id]) ELSE loaded
  /\ UNCHANGED <<files, pc, all, errored, objects, outputs, counters, listed>>

OpenPairs ==
  /\ pc = "headers" /\ left = {}
  /\ pc' = "pairs" /\ Open(pairs, listed)
  /\ UNCHANGED <<files, loaded, all, errored, objects, outputs, counters>>

\* (Seeded fault: a pair without objects is a transition without changes.)
FailedOnly(p) == p.error

Failed(p) == p.error \/ p.objects = <<>>

\* One pair record: skipped, an error, or a transition.
ReadPair ==
  /\ pc = "pairs"
  /\ \E id \in left :
       LET p == pairs[id]
           loads == p.file = "pair"
       IN  /\ left' = left \ {id}
           /\ errored' = IF loads /\ Failed(p) THEN errored + 1 ELSE errored
           /\ objects' = IF loads /\ ~Failed(p) THEN objects + Len(p.objects) ELSE objects
           /\ all' = IF loads /\ ~Failed(p) THEN Insert(all, id, Rollup(id, p)) ELSE all
  /\ UNCHANGED <<files, pc, loaded, outputs, counters, listed>>

\* (Seeded fault: the report is saved whatever becomes of the summary.)
TabulateAndReport ==
  /\ pc = "pairs" /\ left = {} /\ pc' \in {"summary", "report"}
  /\ UNCHANGED <<files, left, loaded, all, errored, objects, outputs, counters, listed>>

Tabulate ==
  /\ pc = "pairs" /\ left = {} /\ pc' = "summary"
  /\ UNCHANGED <<files, left, loaded, all, errored, objects, outputs, counters, listed>>
-----------------------------------------------------------------------------
\* The figures of a study, of the transitions a.
Good(a) == {id \in DOMAIN a : ~a[id].mass_rename}
Of(a, l) == {id \in Good(a) : a[id].language = l}
Relevant(t, K) == Present(t.counts) \cap K

Affected(a, K) == {id \in Good(a) : Relevant(a[id], K) # {}}

\* (Seeded fault: one change that is absorbed is enough.)
FullyOnce(a, K) == {id \in Affected(a, K) : \E k \in Relevant(a[id], K) : Absorbed(k)}

Fully(a, K) == {id \in Affected(a, K) : \A k \in Relevant(a[id], K) : Absorbed(k)}

Needing(a, K, m) == {id \in Fully(a, K) : \E k \in Relevant(a[id], K) : MechanismFor(k) = m}
SolelyBy(a, K, m) == {id \in Needing(a, K, m) : \A k \in Relevant(a[id], K) : MechanismFor(k) = m}

Rescue(a, K) ==
  [affected |-> Cardinality(Affected(a, K)), fully_rescued |-> Cardinality(Fully(a, K)),
   needed_by |-> [m \in Mechanisms |-> Cardinality(Needing(a, K, m))],
   sole_reason |-> [m \in Mechanisms |-> Cardinality(SolelyBy(a, K, m))]]

\* kind_stats over a group of transitions.
With(a, T, k) == {id \in T : a[id].counts[k] > 0}
Frequency(a, T) ==
  [k \in ChangeKind |-> [transitions |-> Cardinality(With(a, T, k)),
                         events |-> SumFunction([id \in T |-> a[id].counts[k]])]]

Libraries(a, T) == Cardinality({a[id].source : id \in T})
Declared(a) == {id \in Affected(a, BinaryBreaking) : a[id].soname_changed}

Filtered(a, f) == [k \in ChangeKind |-> SumFunction([id \in DOMAIN a |-> a[id][f][k]])]

\* The measures of the header records, of the transitions that have one with a comparison.
HeaderChurn(a) ==
  LET with == {id \in Good(a) : a[id].headers # {}}
      of(id, f) == (CHOOSE h \in a[id].headers : TRUE)[f]
      some(f) == Cardinality({id \in with : of(id, f) > 0})
      sum(f) == SumFunction([id \in with |-> of(id, f)])
  IN  [with_data |-> Cardinality(with), with_definitions |-> some("definitions_common"),
       body_changed |-> some("inline_body_changed"), body_events |-> sum("inline_body_changed"),
       macro_changed |-> some("macro_value_changed"), macro_events |-> sum("macro_value_changed"),
       macro_changed_nonversion |-> some("macro_value_changed_nonversion"),
       poor_coverage |-> Cardinality({id \in with : a[id].poor})]

Summary(a) ==
  [of |-> studies,
   transitions |-> Cardinality(Good(a)), libraries |-> Libraries(a, Good(a)),
   c_transitions |-> Cardinality(Of(a, "c")), cxx_transitions |-> Cardinality(Of(a, "cxx")),
   mass_rename_excluded |-> Cardinality(DOMAIN a \ Good(a)),
   objects |-> objects, errored |-> errored,
   debug_info_missing |-> Cardinality({id \in Good(a) : a[id].debug_info_missing}),
   filtered |-> <<Filtered(a, "third_party"), Filtered(a, "private_node")>>,
   frequency_all |-> Frequency(a, Good(a)),
   frequency_c |-> Frequency(a, Of(a, "c")), frequency_cxx |-> Frequency(a, Of(a, "cxx")),
   breaking |-> Cardinality(Affected(a, BinaryBreaking)), declared |-> Cardinality(Declared(a)),
   silent |-> Cardinality(Affected(a, BinaryBreaking)) - Cardinality(Declared(a)),
   rescue_binary |-> Rescue(a, BinaryBreaking), rescue_evolution |-> Rescue(a, EvolutionRelevant),
   rescue_inline |-> Rescue(a, EvolutionOrInline),
   headers |-> HeaderChurn(a),
   list |-> a]

\* The end of run_analyze and of all it holds in memory.
End ==
  /\ pc' = "idle" /\ left' = {}
  /\ loaded' = None /\ all' = None /\ errored' = 0 /\ objects' = 0
  /\ listed' = TRUE /\ disturbed' = {}

\* save_artifact and write_file_atomic: two files, each replaced as a whole; the second is not
\* tried when the first fails.
SaveSummary ==
  /\ pc = "summary" /\ pc' = "report"
  /\ summary' = Summary(all)
  /\ UNCHANGED <<files, left, loaded, all, errored, objects, report, html, counters, listed>>

SaveReport ==
  /\ pc = "report" /\ End
  /\ report' = studies
  /\ UNCHANGED <<files, summary, html, studies, writes>>

\* A write fails, or the process dies anywhere.
Stop ==
  /\ pc # "idle" /\ End
  /\ UNCHANGED <<files, outputs, studies, writes>>

\* bysrc: breaks and transitions of each library.
BySrc(s) ==
  [l \in Sources |->
     LET own == {id \in DOMAIN s.list : ~s.list[id].mass_rename /\ s.list[id].source = l}
     IN  <<Cardinality({id \in own : Present(s.list[id].counts) \cap BinaryBreaking # {}}),
           Cardinality(own)>>]

\* unstable: the first MaxListed of the libraries with a break, in an order that leaves ties open.
NoLater(m, n) == m[1] > n[1] \/ (m[1] = n[1] /\ m[2] >= n[2])

Unstable(s) ==
  LET by == BySrc(s)
      breaking == {l \in Sources : by[l][1] # 0}
  IN  {L \in SUBSET breaking :
         /\ Cardinality(L) <= MaxListed
         /\ L # breaking => Cardinality(L) = MaxListed
         /\ \A l \in L, k \in breaking \ L : NoLater(by[l], by[k])}

\* run_report: report.html from summary.json, of whichever study that is, with L as its list.
Html(s, L) ==
  [of |-> s.of,
   unabsorbed |-> s.rescue_binary.affected - s.rescue_binary.fully_rescued,
   affected |-> s.rescue_binary.affected,
   ceiling |-> s.rescue_evolution.affected - s.rescue_evolution.fully_rescued,
   unstable |-> [l \in L |-> BySrc(s)[l]]]

RenderReport ==
  /\ pc = "idle" /\ summary.of > html.of
  /\ \E L \in Unstable(summary) : html' = Html(summary, L)
  /\ UNCHANGED <<files, pc, left, loaded, all, errored, objects, summary, report, counters, listed>>
-----------------------------------------------------------------------------
\* A diff or a headers stage, or a child of one that died, saves a record.  A new file may come
\* too late for a walk that is under way.
SeenBy(walk, id, old) ==
  IF pc = walk /\ old = NoFile THEN left' \in {left, left \cup {id}} ELSE left' = left

SavePair ==
  /\ writes < MaxWrites /\ writes' = writes + 1
  /\ \E id \in Ids, c \in Pairs \ {NoFile} :
       /\ pairs' = [pairs EXCEPT ![id] = c]
       /\ SeenBy("pairs", id, pairs[id])
       /\ disturbed' = IF pc = "idle" THEN {} ELSE disturbed \cup {id}
  /\ UNCHANGED <<headers, pc, loaded, all, errored, objects, outputs, studies, listed>>

SaveHeader ==
  /\ pc = "idle"
  /\ writes < MaxWrites /\ writes' = writes + 1
  /\ \E id \in Ids, h \in HeaderData \ {NoFile} : headers' = [headers EXCEPT ![id] = h]
  /\ UNCHANGED <<pairs, pc, left, loaded, all, errored, objects, outputs, studies, listed, disturbed>>

Next ==
  \/ Start \/ ReadHeader \/ OpenPairs \/ ReadPair \/ Tabulate \/ SaveSummary \/ SaveReport
  \/ Stop \/ RenderReport \/ SavePair \/ SaveHeader

Spec == Init /\ [][Next]_vars
-----------------------------------------------------------------------------
\* The summary is of the directory: whatever was written meanwhile, a record that was there
\* throughout and loads is counted exactly once, as a transition, a mass rename or an error, with the
\* header record of the same pair; nothing else adds to the counts (analyze.cpp:242-276).
StudyOfTheDirectory ==
  pc = "report" /\ listed =>
    LET quiet == Ids \ disturbed
        records == {id \in quiet : pairs[id].file = "pair"}
        counted == summary.transitions + summary.mass_rename_excluded + summary.errored
    IN  /\ Cardinality(records) <= counted
        /\ counted <= Cardinality(records) + Cardinality(disturbed)
        /\ \A id \in quiet :
             /\ id \in DOMAIN summary.list <=>
                  id \in records /\ ~pairs[id].error /\ Len(pairs[id].objects) > 0
             /\ id \in DOMAIN summary.list =>
                  (summary.list[id].headers # {} <=> headers[id].file = "header" /\ headers[id].diff)

\* The framings nest (model.hpp): what a wider framing affects or fully rescues includes all that a
\* narrower one does, so that no difference of the report is negative, and each rescued
\* transition needs a mechanism, by itself or with others (analyze.cpp:180-232).
FramingsNest ==
  summary.of > 0 =>
    LET b == summary.rescue_binary
        e == summary.rescue_evolution
        n == summary.rescue_inline
    IN  /\ b.affected <= e.affected /\ e.affected <= n.affected
        /\ b.fully_rescued <= e.fully_rescued /\ e.fully_rescued <= n.fully_rescued
        /\ b.affected - b.fully_rescued = e.affected - e.fully_rescued
        /\ e.affected - e.fully_rescued = n.affected - n.fully_rescued
        /\ \A r \in {b, e, n} : /\ r.fully_rescued <= r.affected
                               /\ SumFunction(r.sole_reason) <= r.fully_rescued
                               /\ r.fully_rescued <= SumFunction(r.needed_by)

\* What report.html says of "removed symbols and changed signatures" is said of the transitions that
\* have one.  Its list of unstable libraries, made anew from the transitions, is of the least stable
\* ones, is cut only when it is full, and falls short of the breaks of the summary by those of the
\* libraries that were cut (report.cpp:323-332, 335-370).
ReportAgrees ==
  html.of > 0 /\ html.of = summary.of =>
    LET a == summary.list
        symbols == {"symbol_removed", "function_signature_changed"}
        broken == Affected(a, BinaryBreaking)
        shown == DOMAIN html.unstable
        cut == {id \in broken : a[id].source \notin shown}
    IN  /\ html.unabsorbed = Cardinality({id \in Good(a) : Relevant(a[id], symbols) # {}})
        /\ html.ceiling = html.unabsorbed
        /\ summary.declared + summary.silent = html.affected
        /\ summary.breaking = SumFunction([l \in shown |-> html.unstable[l][1]]) + Cardinality(cut)
        /\ summary.transitions >= SumFunction([l \in shown |-> html.unstable[l][2]])
        /\ cut # {} => Cardinality(shown) = MaxListed
        /\ \A l \in shown :
             /\ html.unstable[l][1] > 0
             /\ \A k \in Sources \ shown :
                  Cardinality({id \in broken : a[id].source = k}) <= html.unstable[l][1]

\* Neither report is ever of a study whose summary was not saved (analyze.cpp:507-508,
\* report.cpp:212).
ReportsFollowSummary == report <= summary.of /\ html.of <= summary.of
=============================================================================

----------------------------- MODULE Configurator -----------------------------
(***************************************************************************)
(* The configurator of the application specification language (cnf): what  *)
(* the parser makes of synonym statements (S: x, y;) and declarations      *)
(* (F: x -> M: a, b -> F: y;), and how the synonym lists are put together  *)
(* before the physical names are worked out (conf.c main, conf_2.c).  The  *)
(* attributes of a name, in parentheses, are left out.                     *)
(***************************************************************************)
EXTENDS Naturals, Sequences, SequencesExt, FiniteSets

CONSTANTS
  CslNames,
  Synonymies,   \* synonym statements: sequences of names
  Declarations, \* sequences of groups <<"M" or "F", sequence of names>>
  MaxStatements

ASSUME ConfiguratorAssumption ==
  /\ \A s \in Synonymies : s \in Seq(CslNames) /\ Len(s) > 1
  /\ \A d \in Declarations : \A g \in ToSet(d) : g[1] \in {"M", "F"} /\ g[2] \in Seq(CslNames)
  /\ MaxStatements \in Nat

CslNodes == {"M", "F"} \X CslNames

VARIABLES
  phase,      \* of main
  m_header, f_header,   \* modules and data stores, in the order of their entry
  links,      \* succ_list and pred_list of every node
  synonyms,   \* the list of synonym lists
  scan,       \* where adjoin_synonym_lists is: [first, element, second]
  syn_list,   \* syn_list[n]: the number of the list of node n; 0 for one of its own
  statements  \* history: the statements

confVars == <<phase, m_header, f_header, links, synonyms, scan, syn_list, statements>>

ConfInit ==
  /\ phase = "parse" /\ m_header = <<>> /\ f_header = <<>>
  /\ links = [succ |-> [n \in CslNodes |-> <<>>], pred |-> [n \in CslNodes |-> <<>>]]
  /\ synonyms = <<>> /\ scan = [first |-> 1, element |-> 1, second |-> 2]
  /\ syn_list = [n \in CslNodes |-> 0] /\ statements = <<>>

-----------------------------------------------------------------------------
(* Parsing. *)

Parses(s) ==
  /\ phase = "parse" /\ Len(statements) < MaxStatements
  /\ statements' = Append(statements, s)
  /\ UNCHANGED <<phase, scan, syn_list>>

\* begin_synonym_proc, and assert_synonym_name for each name.
Synonym(s) ==
  /\ Parses([kind |-> "synonym", of |-> s]) /\ synonyms' = Append(synonyms, s)
  /\ UNCHANGED <<m_header, f_header, links>>

\* begin_node_proc puts a name in front of the names of its group.
GroupNodes(g) == [k \in DOMAIN g[2] |-> <<g[1], Reverse(g[2])[k]>>]
find_or_enter_node(header, node) ==
  IF node \in ToSet(header) THEN header ELSE Append(header, node)
\* A link is known by the names at its ends; both lists grow at the front.
Named(list, node) == \E n \in ToSet(list) : n[2] = node[2]
enter_pred(known, link) ==
  IF Named(known.succ[link[1]], link[2]) THEN known
  ELSE IF Named(known.pred[link[2]], link[1])
       THEN [known EXCEPT !.succ[link[1]] = <<link[2]>> \o @]
       ELSE [known EXCEPT !.succ[link[1]] = <<link[2]>> \o @, !.pred[link[2]] = <<link[1]>> \o @]
\* Every node of a group is linked with every one of the group before it.
LinksOf(d) ==
  FlattenSeq([k \in 1 .. (Len(d) - 1) |->
    LET before == GroupNodes(d[k])
        these  == GroupNodes(d[k + 1]) IN
    [i \in 1 .. (Len(before) * Len(these)) |->
       <<before[((i - 1) % Len(before)) + 1], these[((i - 1) \div Len(before)) + 1]>>]])
\* enter_into_mf_lists, of end_mf_proc.
Declare(d) ==
  LET Entered(header, kind) ==
        FoldLeft(find_or_enter_node, header,
                 FlattenSeq([k \in DOMAIN d |-> IF d[k][1] = kind THEN GroupNodes(d[k]) ELSE <<>>])) IN
  /\ Parses([kind |-> "declaration", of |-> d]) /\ UNCHANGED synonyms
  /\ m_header' = Entered(m_header, "M") /\ f_header' = Entered(f_header, "F")
  /\ links' = FoldLeft(enter_pred, links, LinksOf(d))

-----------------------------------------------------------------------------
(* process_synonyms. *)

At(p, next) == phase = p /\ phase' = next
Parsed == At("parse", "adjoin") /\ UNCHANGED <<m_header, f_header, links, synonyms, scan, syn_list, statements>>

\* Every element of the first list is looked for in every list after it; such a list is
\* appended to the first one.
\* Mutant of Adjoined: only what follows the common name is appended.
AdjoinedFromMatch(list, name, second) == list \o SubSeq(second, SelectInSeq(second, LAMBDA n : n = name), Len(second))
Adjoined(list, name, second)          == list \o second
adjoin_synonym_lists ==
  LET i == scan.first
      j == scan.element
      k == scan.second IN
  /\ IF i >= Len(synonyms) THEN At("adjoin", "unique") /\ UNCHANGED <<synonyms, scan>>
     ELSE /\ phase = "adjoin" /\ UNCHANGED phase
          /\ IF j > Len(synonyms[i])
             THEN scan' = [first |-> i + 1, element |-> 1, second |-> i + 2] /\ UNCHANGED synonyms
             ELSE IF k > Len(synonyms)
             THEN scan' = [scan EXCEPT !.element = j + 1, !.second = i + 1] /\ UNCHANGED synonyms
             ELSE IF synonyms[i][j] \in ToSet(synonyms[k])
             THEN /\ synonyms' = RemoveAt([synonyms EXCEPT ![i] = Adjoined(@, synonyms[i][j], synonyms[k])], k)
                  /\ UNCHANGED scan
             ELSE scan' = [scan EXCEPT !.second = k + 1] /\ UNCHANGED synonyms
  /\ UNCHANGED <<m_header, f_header, links, syn_list, statements>>

\* Of equal names of a list the first one stays.
make_unique_synonym_lists ==
  LET KeepFirst(kept, name) == IF name \in ToSet(kept) THEN kept ELSE Append(kept, name) IN
  /\ At("unique", "put")
  /\ synonyms' = [k \in DOMAIN synonyms |-> FoldLeft(KeepFirst, <<>>, synonyms[k])]
  /\ UNCHANGED <<m_header, f_header, links, scan, syn_list, statements>>

\* A name is that of a data store, or else of a module.
NodeOf(name) == IF <<"F", name>> \in ToSet(f_header) THEN <<"F", name>> ELSE <<"M", name>>
put_synonyms_into_mf_lists ==
  /\ At("put", "check")
  /\ syn_list' = [n \in CslNodes |->
       IF n \in ToSet(m_header \o f_header) /\ n = NodeOf(n[2])
       THEN LET lists == {k \in DOMAIN synonyms : n[2] \in ToSet(synonyms[k])}
            IN  IF lists = {} THEN 0 ELSE CHOOSE k \in lists : \A l \in lists : l <= k
       ELSE 0]
  /\ UNCHANGED <<m_header, f_header, links, synonyms, scan, statements>>

\* m_syn_err: the first module that has a synonym loses its list, and the check ends there;
\* main goes on.
check_for_errors ==
  LET wrong == {k \in DOMAIN m_header : syn_list[m_header[k]] # 0
                                          /\ Len(synonyms[syn_list[m_header[k]]]) > 1} IN
  /\ At("check", "done")
  /\ syn_list' = IF wrong = {} THEN syn_list
                 ELSE [syn_list EXCEPT ![m_header[CHOOSE k \in wrong : \A l \in wrong : k <= l]] = 0]
  /\ UNCHANGED <<m_header, f_header, links, synonyms, scan, statements>>

ConfNext ==
  \/ \E s \in Synonymies : Synonym(s)
  \/ \E d \in Declarations : Declare(d)
  \/ Parsed \/ adjoin_synonym_lists \/ make_unique_synonym_lists
  \/ put_synonyms_into_mf_lists \/ check_for_errors

ConfSpec == ConfInit /\ [][ConfNext]_confVars

-----------------------------------------------------------------------------
(* Properties. *)

StatementsOf(kind) == {statements[k].of : k \in {i \in DOMAIN statements : statements[i].kind = kind}}
\* The names that the statements make synonyms of a set of names: one round at a time.
Joined[n \in 0 .. Cardinality(CslNames), S \in SUBSET CslNames] ==
  IF n = 0 THEN S
  ELSE Joined[n - 1, S \cup UNION {ToSet(s) : s \in {t \in StatementsOf("synonym") : ToSet(t) \cap S # {}}}]
SynonymsOf(name) == Joined[Cardinality(CslNames), {name}]

\* After parsing and process_synonyms two data stores are on one list exactly if a chain of
\* synonym statements joins them, whatever the order of the statements (conf_2.c:196), and
\* the lists of predecessors and successors are each other's mirror and hold the declared
\* links, once (conf_2.c:578).
ConfiguratorIsRight ==
  phase = "done" =>
    /\ \A x, y \in {n[2] : n \in ToSet(f_header)} : x # y =>
         ((syn_list[<<"F", x>>] # 0 /\ syn_list[<<"F", x>>] = syn_list[<<"F", y>>]) <=> y \in SynonymsOf(x))
    /\ LET declared == UNION {ToSet(LinksOf(d)) : d \in StatementsOf("declaration")} IN
       \A p, n \in CslNodes :
         /\ <<p, n>> \in declared <=> n \in ToSet(links.succ[p])
         /\ n \in ToSet(links.succ[p]) <=> p \in ToSet(links.pred[n])
         /\ IsInjective(links.succ[p]) /\ IsInjective(links.pred[p])
=============================================================================

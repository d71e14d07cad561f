----------------------------- MODULE PolicyPages -----------------------------
(***************************************************************************)
(* The policy snapshot of a service: reloadPolicies                        *)
(* (pkg/authzclient/enforcer.go) pages the grants of its namespace through *)
(* NamespacePolicies (internal/authz/policy/queries.go), one query for a   *)
(* page, while the policy manager (roles.go) replaces grants in between.   *)
(* One reload is followed: reloads share nothing until they are applied,   *)
(* which is in AuthzClient.  The revision of a page is stored and not used.*)
(***************************************************************************)
EXTENDS Naturals, FiniteSets

CONSTANTS
    PolicyRoles,
    Permissions,   \* of the namespace
    PageSize,
    MaxId          \* bound: how many rows the table ever gets

ASSUME PagesAssumption == PageSize \in Nat \ {0} /\ MaxId \in Nat

VARIABLES
    rows,    \* casbin_rule: the p rules of the namespace, by id
    spent,   \* the ids used so far
    paging   \* the reload: its page token and the rules collected

pageVars == <<rows, spent, paging>>

-----------------------------------------------------------------------------
Grants == PolicyRoles \X Permissions

Ids == 1..MaxId

\* throughout, meanwhile: the rules stored all the time, or at some time, since
\* the reload began.  early: a row was inserted meanwhile before one that has
\* been there (history).
Paging == [pc: {"idle", "page", "apply"}, token: 0..MaxId, rules: SUBSET Grants,
           throughout: SUBSET Grants, meanwhile: SUBSET Grants, early: BOOLEAN]

NoPaging == [pc |-> "idle", token |-> 0, rules |-> {},
             throughout |-> {}, meanwhile |-> {}, early |-> FALSE]

PagesTypeOK ==
    /\ rows \subseteq [id: spent, rule: Grants]
    /\ spent \subseteq Ids
    /\ paging \in Paging

PagesInit == rows = {} /\ spent = {} /\ paging = NoPaging

-----------------------------------------------------------------------------
RulesOf(table) == {row.rule : row \in table}

\* The rows of grants under the ids the replica that inserts them gives them.
Rows(grants, ids) == {[id |-> ids[g], rule |-> g] : g \in grants}

\* What a reload that is under way may and must see of the table.
Observe(table, early) ==
    paging' = IF paging.pc # "page" THEN paging
              ELSE [paging EXCEPT !.throughout = @ \intersect RulesOf(table),
                                  !.meanwhile = @ \union RulesOf(table),
                                  !.early = @ \/ early]

\* The transaction of CreateRole, UpdateRole (a role keeps its name or takes a
\* free one) and DeleteRole: the rules of the old name are deleted, those of the
\* new one inserted, under new ids even if they are the same.  Ids are UUIDv7:
\* in the order of their making, as far as clocks and commits agree.
ReplaceGrants(old, new, permissions) ==
    LET grants == {new} \X permissions
        kept == {row \in rows : row.rule[1] # old}
    IN  /\ \A row \in kept : row.rule[1] # new
        /\ \E ids \in [grants -> Ids \ spent] :
              /\ \A g, h \in grants : ids[g] = ids[h] => g = h
              /\ rows' = kept \union Rows(grants, ids)
              /\ spent' = spent \union {ids[g] : g \in grants}
              /\ Observe(rows', \E g \in grants : \E id \in spent : ids[g] < id)

-----------------------------------------------------------------------------
BeginReload ==
    /\ paging.pc = "idle"
    /\ paging' = [NoPaging EXCEPT !.pc = "page", !.throughout = RulesOf(rows),
                                  !.meanwhile = RulesOf(rows)]
    /\ UNCHANGED <<rows, spent>>

\* The first n rows by id.
First(n, table) ==
    {row \in table : Cardinality({other \in table : other.id < row.id}) < n}

LastId(table) == CHOOSE id \in {row.id : row \in table} : \A row \in table : row.id <= id

\* Mutant of NextToken: the row that is read ahead is taken for a row of the page.
NextTokenAhead(after) == LastId(First(PageSize + 1, after))

NextToken(after) == LastId(First(PageSize, after))

\* pageRules: the rows after the token, one more than the page has, and the token
\* of the next page.
Page ==
    LET after == {row \in rows : row.id > paging.token}
        read == [paging EXCEPT !.rules = @ \union RulesOf(First(PageSize, after))]
    IN  /\ paging.pc = "page"
        /\ paging' = IF Cardinality(after) > PageSize
                     THEN [read EXCEPT !.token = NextToken(after)]
                     ELSE [read EXCEPT !.token = 0, !.pc = "apply"]
        /\ UNCHANGED <<rows, spent>>

\* The rules replace the snapshot; or a page failed, and the snapshot stays.
EndReload ==
    /\ paging.pc # "idle"
    /\ paging' = NoPaging
    /\ UNCHANGED <<rows, spent>>

PagesNext ==
    \/ \E old, new \in PolicyRoles, permissions \in SUBSET Permissions :
          ReplaceGrants(old, new, permissions)
    \/ BeginReload \/ Page \/ EndReload

PagesSpec == PagesInit /\ [][PagesNext]_pageVars

-----------------------------------------------------------------------------
(***************************************************************************)
(* The rules a reload has collected, page by page, while grants were       *)
(* replaced, were each stored at some time meanwhile; and a rule that was  *)
(* stored all the time is among them, although each UpdateRole moves it to *)
(* a new row, as long as "id order is stable insertion order" (pageRules): *)
(* unless some row came in before older ones.                              *)
(***************************************************************************)
SnapshotWithinReload ==
    paging.pc = "apply" =>
        /\ paging.rules \subseteq paging.meanwhile
        /\ ~paging.early => paging.throughout \subseteq paging.rules

=============================================================================

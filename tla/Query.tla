-------------------------------- MODULE Query --------------------------------
(***************************************************************************)
(* The query builder (kh_common/sql/query.py): a query, and a second one   *)
(* that its conditions may embed and that is still being built.  build     *)
(* returns the text and the parameters, from two traversals that must      *)
(* agree on the placeholders.  Group, order and function hold none and are *)
(* left out; so is all text but the placeholders.                          *)
(***************************************************************************)
EXTENDS Naturals, SequencesExt

CONSTANTS MaxCalls, MaxConditions   \* bounds, for model checking only

ASSUME QueryAssumption == MaxCalls \in Nat /\ MaxConditions \in Nat

VARIABLES
  query,   \* the two queries
  calls    \* builder calls so far

queryVars == <<query, calls>>

Queries == {"outer", "inner"}
Clauses == {"join", "where", "having"}

(* a Where: "Query" stands for the inner query; IS NULL has no use for its *)
(* right side, which may hold a value all the same                         *)
Conditions(q) ==
  LET terms == {"Field", "Value"} \cup IF q = "outer" THEN {"Query"} ELSE {}
  IN  [field : terms, operator : {"equal"}, value : terms]
        \cup [field : terms, operator : {"is_null"}, value : {"Value"}]

(* limit and offset: 0 for None *)
QueryInit ==
  /\ query = [q \in Queries |->
       [select |-> FALSE, joined |-> FALSE, limit |-> 0, offset |-> 0,
        join |-> <<>>, where |-> <<>>, having |-> <<>>]]
  /\ calls = 0
-----------------------------------------------------------------------------
(* What one side of a condition adds to the text, a placeholder, and to    *)
(* the parameters, its value: both named by the side's place.              *)
Side(term, name, embedded) ==
  CASE term = "Field" -> <<>> [] term = "Value" -> <<name>> [] term = "Query" -> embedded

WhereText(where, name, embedded) ==
  Side(where.field, Append(name, "field"), embedded)
    \o IF where.operator = "is_null" THEN <<>>
       ELSE Side(where.value, Append(name, "value"), embedded)

(* mutant: IS NULL has a parameter as well *)
WhereParams_Both(where, name, embedded) ==
  Side(where.field, Append(name, "field"), embedded)
    \o Side(where.value, Append(name, "value"), embedded)

WhereParams(where, name, embedded) ==
  Side(where.field, Append(name, "field"), embedded)
    \o IF where.operator = "is_null" THEN <<>>
       ELSE Side(where.value, Append(name, "value"), embedded)

Clause(q, clause, Each(_, _, _), embedded) ==
  FlattenSeq([i \in DOMAIN query[q][clause] |->
    Each(query[q][clause][i], <<q, clause, ToString(i)>>, embedded)])

(* LIMIT and OFFSET: zero is no clause and no parameter *)
Paging(q, number) == IF query[q][number] # 0 THEN << <<q, number>> >> ELSE <<>>

(* __build_query__ *)
BuildQuery(q, embedded) ==
  Clause(q, "join", WhereText, embedded) \o Clause(q, "where", WhereText, embedded)
    \o Clause(q, "having", WhereText, embedded) \o Paging(q, "limit") \o Paging(q, "offset")

Params(q, embedded) ==
  Clause(q, "join", WhereParams, embedded) \o Clause(q, "where", WhereParams, embedded)
    \o Clause(q, "having", WhereParams, embedded) \o Paging(q, "limit") \o Paging(q, "offset")

Embeds == \E clause \in Clauses : \E i \in DOMAIN query["outer"][clause] :
            LET where == query["outer"][clause][i] IN
            where.field = "Query" \/ (where.operator # "is_null" /\ where.value = "Query")

(* the asserts of __build_query__, Join.__str__ and params *)
TextBuilt(q) == query[q].select /\ (query[q].joined => query[q].join # <<>>)
ParamsBuilt(q) == query[q].select
-----------------------------------------------------------------------------
Select(q) == query' = [query EXCEPT ![q].select = TRUE]

JoinTable(q) == query' = [query EXCEPT ![q].joined = TRUE]

Conditional(q) ==
  /\ FoldFunction(+, 0, [c \in Queries \X Clauses |-> Len(query[c[1]][c[2]])]) < MaxConditions
  /\ \E clause \in Clauses, condition \in Conditions(q) :
       /\ clause = "join" => query[q].joined
       /\ query' = [query EXCEPT ![q][clause] = Append(@, condition)]

Limit(q) == query' = [query EXCEPT ![q].limit = 2]

Offset(q) == query' = [query EXCEPT ![q].offset = 1]

(* the first page has offset 0, which is no OFFSET *)
Page(q) ==
  /\ query[q].limit > 0
  /\ \E page \in 1 .. 2 : query' = [query EXCEPT ![q].offset = query[q].limit * (page - 1)]

QueryNext ==
  /\ calls < MaxCalls /\ calls' = calls + 1
  /\ \E q \in Queries :
       Select(q) \/ JoinTable(q) \/ Conditional(q) \/ Limit(q) \/ Offset(q) \/ Page(q)

QuerySpec == QueryInit /\ [][QueryNext]_queryVars
-----------------------------------------------------------------------------
(* PlaceholdersMatch: whenever build gives a text, it gives parameters,    *)
(* one for each placeholder and in their order, through joins, embedded    *)
(* queries, conditions without a right side and pages (query.py:86-91,     *)
(* 157-233).                                                               *)
PlaceholdersMatch ==
  TextBuilt("outer") /\ (Embeds => TextBuilt("inner")) =>
    /\ ParamsBuilt("outer") /\ (Embeds => ParamsBuilt("inner"))
    /\ BuildQuery("outer", BuildQuery("inner", <<>>)) = Params("outer", Params("inner", <<>>))
=============================================================================

------------------------------ MODULE Postgres ------------------------------
(***************************************************************************)
(* The rows of the inventory table as the transactions of RunInTx          *)
(* (pkg/database/postgres.go) see them at PostgreSQL's default isolation   *)
(* level, READ COMMITTED:                                                  *)
(*   - a SELECT returns the last committed version of a row, or the        *)
(*     transaction's own uncommitted version of it;                        *)
(*   - an UPDATE waits while another open transaction holds the row, and   *)
(*     then works on (and re-evaluates its WHERE on) the newest version;   *)
(*   - a row once updated stays locked until COMMIT or ROLLBACK.           *)
(* A row has at most one uncommitted version, that of the transaction      *)
(* holding it: draft[r] is that version, and equals the committed one      *)
(* while nobody holds the row.                                             *)
(***************************************************************************)
EXTENDS Integers, FiniteSets

CONSTANTS Rows,      \* the inventory rows: one per product and location
          Procs,     \* the goroutines serving HTTP requests
          Nobody     \* the holder of an unlocked row

ASSUME NobodyAssumption == Nobody \notin Procs
ASSUME FiniteAssumption == IsFiniteSet(Rows) /\ IsFiniteSet(Procs)

VARIABLES stock,     \* stock[r]: the committed version of row r
          draft,     \* draft[r]: the version its holder has written
          holder     \* holder[r]: the transaction holding row r, or Nobody

rowVars == <<stock, draft, holder>>

\* quantity is NUMERIC and signed; no CHECK constrains either column.
Cell == [quantity : Int, allocated : Int]

RowsTypeOK == /\ stock  \in [Rows -> Cell]
              /\ draft  \in [Rows -> Cell]
              /\ holder \in [Rows -> Procs \cup {Nobody}]

RowsInit(initial) == /\ stock  = initial
                     /\ draft  = initial
                     /\ holder = [r \in Rows |-> Nobody]

Available(c) == c.quantity - c.allocated

-----------------------------------------------------------------------------
\* What a SELECT of transaction p returns for row r.
Sees(p, r) == IF holder[r] = p THEN draft[r] ELSE stock[r]

\* An UPDATE of row r by p goes ahead; until then it waits.
CanWrite(p, r) == holder[r] \in {p, Nobody}

Write(p, r, cell) == /\ holder' = [holder EXCEPT ![r] = p]
                     /\ draft'  = [draft EXCEPT ![r] = cell]
                     /\ UNCHANGED stock

Unlocked(p) == [r \in Rows |-> IF holder[r] = p THEN Nobody ELSE holder[r]]

CommitRows(p) == /\ stock'  = [r \in Rows |-> Sees(p, r)]
                 /\ holder' = Unlocked(p)
                 /\ UNCHANGED draft

RollbackRows(p) == /\ draft'  = [r \in Rows |-> IF holder[r] = p THEN stock[r] ELSE draft[r]]
                   /\ holder' = Unlocked(p)
                   /\ UNCHANGED stock
=============================================================================

---------------------------- MODULE MCMigrations ----------------------------
(* Two operators with three ways to set DATABASE_URL; the alembic.ini of   *)
(* one leaves the URL empty, as the repository's does, and that of the     *)
(* other names a second database.                                          *)
EXTENDS Migrations

CONSTANTS m1, m2, pbl4_db, other_db

At(scheme, database) == [scheme |-> scheme, database |-> database]

MCSettings == {NULL, At("postgres", pbl4_db), At("postgresql+psycopg2", pbl4_db)}

MCINI == [m \in {m1, m2} |->
            IF m = m1 THEN NULL ELSE At("postgresql+psycopg", other_db)]
=============================================================================

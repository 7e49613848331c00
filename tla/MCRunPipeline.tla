--------------------------- MODULE MCRunPipeline ----------------------------
(***************************************************************************)
(* Small instances of RunPipeline: three records (four where one batch is  *)
(* enough), one of them of a span the run does not know, and two watchers  *)
(* with different filters.                                                 *)
(***************************************************************************)
EXTENDS RunPipeline, TLC

CONSTANTS w1, w2

MCWatchers == {w1, w2}
MCWanted == w1 :> {1, 2, 3, 4, 5} @@ w2 :> {2, 4}
MCOrphan == {2}

\* The batch statement and its limit, as main.rs computes record_max_buf_count
\* when the environment sets none: scaled down from 32767 bind parameters, and
\* like it one short of a multiple of the columns bound per row.
BIND_COL_COUNT == 8
POSTGRESQL_MAX_BIND_PARAM_COUNT == 23
DefaultBufCount == POSTGRESQL_MAX_BIND_PARAM_COUNT \div BIND_COL_COUNT

\* An insert statement binds no more parameters than
\* POSTGRESQL_MAX_BIND_PARAM_COUNT allows (running_app.rs:480, main.rs:121).
BindParamsFit == Len(inserting) * BIND_COL_COUNT <= POSTGRESQL_MAX_BIND_PARAM_COUNT
=============================================================================

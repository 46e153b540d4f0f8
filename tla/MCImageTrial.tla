------------------------------ MODULE MCImageTrial ------------------------------
(* Every version and initdb option, the kinds of extensions there are. *)
EXTENDS ImageTrial

MCContrib == {"pg_stat_statements", "pgcrypto"}
MCApt == {"vector", "pg_cron"}
MCNeedsPreload == {"pg_stat_statements", "pg_cron"}

MCSelections ==
  [major : Majors, checksums : BOOLEAN, segment : {16, 24, 128}, collation : {"default", "C"},
   extensions : {{}, {"pg_stat_statements", "vector"}, {"pgcrypto", "pg_cron"}},
   minWal : {32, 256}, clamped : BOOLEAN]
=============================================================================

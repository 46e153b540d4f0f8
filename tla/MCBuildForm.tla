------------------------------ MODULE MCBuildForm ------------------------------
(* The monitoring chain, one service baked into the image, and a few ports. *)
EXTENDS ServiceResolve

MCServices == {"postgres_exporter", "prometheus", "grafana", "pgbackrest"}
MCSidecars == MCServices \ {"pgbackrest"}
MCRequires == [k \in MCServices |->
  CASE k = "prometheus" -> {"postgres_exporter"}
    [] k = "grafana" -> {"postgres_exporter", "prometheus"}
    [] OTHER -> {}]
MCDefault == [k \in {"postgres"} \cup MCSidecars |->
  CASE k = "postgres" -> 5432 [] k = "postgres_exporter" -> 9187
    [] k = "prometheus" -> 9090 [] k = "grafana" -> 3000]
=============================================================================

---- MODULE MCSentinel ----
(* A small instance of Sentinel: two sentinels and three servers. *)
EXTENDS Sentinel

CONSTANTS s1, s2

MCSentinels == <<s1, s2>>
====

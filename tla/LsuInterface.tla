------------------------------ MODULE LsuInterface ------------------------------
(***************************************************************************)
(* cve2_lsu_interface: the address counter of vector loads and stores in     *)
(* front of the load/store unit.                                             *)
(***************************************************************************)
EXTENDS Integers

VARIABLE addr_counter    \* addr_q of cve2_lsu_interface

lsu_addr(vec_op, lsu_incr_req, scalar_addr) ==
  IF vec_op /\ ~lsu_incr_req THEN addr_counter ELSE scalar_addr

LsuInterfaceInit == addr_counter = 0

LsuInterfaceCycle(load_start, start_addr, lsu_resp_valid, unit_stride, scalar_addr, space) ==
  addr_counter' = IF load_start THEN start_addr
                  ELSE IF ~lsu_resp_valid THEN addr_counter
                  ELSE IF unit_stride THEN (addr_counter + 4) % space ELSE scalar_addr
=============================================================================

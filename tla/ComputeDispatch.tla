-------------------------- MODULE ComputeDispatch --------------------------
(***************************************************************************)
(* src/compute/mod.rs: how many invocations a dispatch starts.           *)
(***************************************************************************)
EXTENDS Integers

(* DispatchConfig::dispatch_count along its one axis; a group of size zero *)
(* starts nothing.                                                       *)
dispatch_count(element_count, workgroup_size) ==
    IF workgroup_size = 0 THEN 0
    ELSE (element_count + workgroup_size - 1) \div workgroup_size

(* The global invocation ids.                                            *)
Started(element_count, workgroup_size) ==
    0..dispatch_count(element_count, workgroup_size) * workgroup_size - 1

=============================================================================

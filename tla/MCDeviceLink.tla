---------------------------- MODULE MCDeviceLink ----------------------------
(* A small instance of DeviceLink.  No property names a process.           *)
EXTENDS DeviceLink, TLC

Interchangeable == Permutations(Procs)
=============================================================================

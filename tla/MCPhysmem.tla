----------------------------- MODULE MCPhysmem -----------------------------
(* Eight pages: one of the first megabyte, one of the kernel, one module.  *)
EXTENDS Physmem

MCKernelPages == {1}
MCModulePages == {5}

=============================================================================

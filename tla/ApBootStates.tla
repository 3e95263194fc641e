---------------------------- MODULE ApBootStates ----------------------------
(***************************************************************************)
(* What bring_up_one_ap leaves in a context's boot record, as the          *)
(* scheduler reads it (kernel/kernel.c): whether error is AP_BOOT_OK, the  *)
(* online flag and ap_state.  ApBoot shows that the boot code leaves       *)
(* nothing else; ApScheduler starts from any of it.                        *)
(***************************************************************************)

(* An AP that is online, possibly faulted already.                         *)
BroughtUp == [ok : {TRUE}, online : {TRUE}, state : {"ONLINE", "FAULTED"}]

(* A boot error.  The AP never ran, is still on its way into the loop, or  *)
(* faulted there.                                                          *)
Failed    == [ok : {FALSE}, online : {FALSE},
              state : {"NONE", "READY", "SENT_INIT", "SENT_SIPI", "ONLINE", "FAULTED"}]

(* A boot error on an AP that came online after all; a store of the BSP    *)
(* may lie on top of the AP's own ONLINE or FAULTED.                       *)
Late      == [ok : {FALSE}, online : {TRUE},
              state : {"READY", "SENT_INIT", "SENT_SIPI", "ONLINE", "FAULTED"}]

(* A context that no bring-up was tried for, as init_ap_context leaves it. *)
Unused    == [ok : BOOLEAN, online : {FALSE}, state : {"NONE"}]
=============================================================================

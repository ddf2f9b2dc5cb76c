------------------------------- MODULE FbCtrl -------------------------------
(***************************************************************************)
(* The framebuffer controller, src/src/video/fb_ctrl.{h,cpp}.  A write of  *)
(* VSYNC_CTRL swaps the buffers, shows the new front buffer and raises the *)
(* line, all inside the store; a write of VSYNC_STATUS acknowledges.  The  *)
(* address, stride and palette registers are handed to the display as they *)
(* are, and are left out.                                                  *)
(***************************************************************************)
EXTENDS Integers

VARIABLES active_buf, vsync_pending,
          irq           \* the level last given to on_irq

fbVars == <<active_buf, vsync_pending, irq>>

Init == active_buf = 0 /\ vsync_pending = FALSE /\ irq = FALSE

WriteVsyncCtrl ==
    /\ active_buf' = 1 - active_buf
    /\ vsync_pending' = TRUE
    /\ irq' = TRUE

WriteVsyncStatus ==
    /\ vsync_pending' = FALSE
    /\ irq' = FALSE
    /\ UNCHANGED active_buf
=============================================================================

----------------------------- MODULE VirtioGpu ------------------------------
(***************************************************************************)
(* The virtio-gpu driver of linux_compat/virtio_gpu.c: the control queue   *)
(* it shares with the device, and the flush that brings what the console   *)
(* drew (drm.c) to the display. The device is external: it takes requests  *)
(* from the available ring in order and puts answers into the used ring,   *)
(* in its own time, and forgets everything when its queue is disabled.     *)
(*                                                                         *)
(* Pictures are version numbers: vfb is what the primary framebuffer holds,*)
(* vres the host's copy, vshown what is on the display. Only the console's *)
(* drawing is modelled, not a program's through its own mapping.           *)
(*                                                                         *)
(* A flush runs in the timer's interrupt or in a system call, both with    *)
(* interrupts off, or in the idle loop of kernel_main with interrupts on,  *)
(* where a process may come between its steps and draw.                    *)
(***************************************************************************)
EXTENDS Integers, Sequences, FiniteSets, FiniteSetsExt

CONSTANTS NSlots,    \* VG_MAX_REQ
          QSize,     \* VG_QUEUE_SIZE
          IdxMod,    \* 2^16, where the ring indices wrap
          MaxDraws   \* bound: drawings of the console

ASSUME VgConstants ==
    /\ {NSlots, QSize, IdxMod, MaxDraws} \subseteq Nat \ {0}
    /\ IdxMod % QSize = 0 /\ IdxMod > QSize

VARIABLES vq,      \* the rings, the slots and vg_used_idx
          vdev,    \* the device: its two positions and the request in hand
          vrun,    \* the running vg_ctrl sequence: its context, what is left
          vmode,   \* "off", "on" once vg_probe has switched the console over
          vfb, vres, vshown,
          vdirty,  \* the dirty rectangle is not empty
          vcount,  \* vg_flush_ok and vg_flush_err, as far as they are compared
          vowed    \* observer: vfb at the last drawing outside any flush

vgvars == <<vq, vdev, vrun, vmode, vfb, vres, vshown, vdirty, vcount, vowed>>
vgpicture == <<vfb, vdirty, vowed>>

VSlots == 1 .. NSlots

NoSlot == 0

Inc16(i) == (i + 1) % IdxMod

EmptyQueue ==
    [avail |-> [i \in 0 .. QSize - 1 |-> NoSlot], aidx |-> 0,
     used |-> [i \in 0 .. QSize - 1 |-> NoSlot], uidx |-> 0, seen |-> 0,
     busy |-> {}, done |-> {},
     out |-> [s \in VSlots |-> "none"], in |-> [s \in VSlots |-> "none"],
     resp |-> [s \in VSlots |-> "none"]]

DeviceReset == [at |-> 0, job |-> NoSlot]

Resting == [who |-> "none", script |-> <<>>, slot |-> NoSlot, again |-> FALSE]

\* The requests of vg_probe and of vg_transfer_flush, in order.
ProbeScript == <<"create", "attach", "scanout">>
FlushScript == <<"transfer", "flush">>

Run(who, script, again) ==
    [who |-> who, script |-> script, slot |-> NoSlot, again |-> again]

\* vgpu_init has been called; the boot messages are on the first framebuffer.
VgInit ==
    /\ vq = EmptyQueue /\ vdev = DeviceReset
    /\ vrun = Run("probe", ProbeScript, TRUE) /\ vmode = "off"
    /\ vfb = 0 /\ vres = 0 /\ vshown = 0
    /\ vdirty = TRUE /\ vcount = [ok |-> 0, err |-> 0] /\ vowed = 0

-----------------------------------------------------------------------------
(* vg_ctrl.                                                                *)

\* Up to the notification: the first slot that is not busy.
Submit ==
    /\ vrun.script # <<>> /\ vrun.slot = NoSlot
    /\ VSlots \ vq.busy # {}
    /\ LET s == Min(VSlots \ vq.busy)
       IN  /\ vq' = [vq EXCEPT !.busy = @ \union {s}, !.done = @ \ {s},
                               !.resp[s] = "none", !.out[s] = Head(vrun.script),
                               !.avail[vq.aidx % QSize] = s, !.aidx = Inc16(@)]
           /\ vrun' = [vrun EXCEPT !.slot = s]
    /\ UNCHANGED <<vdev, vmode, vgpicture, vres, vshown, vcount>>

\* One entry of the loop of vg_poll_used.
PollUsed ==
    /\ vrun.slot # NoSlot /\ vrun.slot \notin vq.done
    /\ vq.seen # vq.uidx
    /\ LET s == vq.used[vq.seen % QSize]
       IN  vq' = [vq EXCEPT !.resp[s] = vq.in[s], !.done = @ \union {s},
                            !.seen = Inc16(@)]
    /\ UNCHANGED <<vdev, vrun, vmode, vgpicture, vres, vshown, vcount>>

\* Faulty variant: the place reached in the used ring is not taken back.
ResetQueueKeepsSeen(q) ==
    [EmptyQueue EXCEPT !.avail = q.avail, !.used = q.used, !.seen = q.seen,
                       !.out = q.out, !.in = q.in, !.resp = q.resp]

\* vg_reset_queue: indices and slot states only; the device is disabled and
\* enabled again around it.
ResetQueue(q) ==
    [EmptyQueue EXCEPT !.avail = q.avail, !.used = q.used,
                       !.out = q.out, !.in = q.in, !.resp = q.resp]

-----------------------------------------------------------------------------
(* The console.                                                            *)

\* A picture the console draws, on the primary framebuffer or, after a client's
\* SETCRTC, on another one: cons_render_cell marks it dirty either way.
Drawn(primary, fb) == IF primary THEN fb + 1 ELSE fb

Draw(primary) ==
    /\ vrun.who \in {"none", "idle"} /\ vfb < MaxDraws
    /\ vfb' = Drawn(primary, vfb)
    /\ vdirty' = TRUE
    /\ vowed' = IF vrun.who = "none" THEN vfb' ELSE vowed
    /\ UNCHANGED <<vq, vdev, vrun, vmode, vres, vshown, vcount>>

\* print_clear: it draws and calls vg_flush_now, which does nothing while
\* another flush holds vg_in_flush.
ClearScreen(primary) ==
    /\ vrun.who \in {"none", "idle"} /\ vmode = "on" /\ vfb < MaxDraws
    /\ vfb' = Drawn(primary, vfb)
    /\ vdirty' = TRUE
    /\ vowed' = IF vrun.who = "none" THEN vfb' ELSE vowed
    /\ vrun' = IF vrun.who = "none" THEN Run("call", FlushScript, FALSE) ELSE vrun
    /\ UNCHANGED <<vq, vdev, vmode, vres, vshown, vcount>>

\* vg_deferred, from the timer's interrupt or the idle loop. The 16 ticks since
\* the last flush pass at any time; called during a flush it returns.
Deferred(who) ==
    /\ vmode = "on" /\ vrun.who = "none" /\ vdirty
    /\ vrun' = Run(who, FlushScript, FALSE)
    /\ UNCHANGED <<vq, vdev, vmode, vgpicture, vres, vshown, vcount>>

-----------------------------------------------------------------------------
(* How a request ends.                                                     *)

Upto2(n) == IF n < 2 THEN n + 1 ELSE n

\* vg_flush_now after vg_transfer_flush: the message about the first success
\* or the first failure is drawn after the rectangle was emptied. vg_probe
\* goes on with a message and a second flush.
FlushEnds(ok) ==
    LET count == IF ok THEN [vcount EXCEPT !.ok = Upto2(@)]
                 ELSE [vcount EXCEPT !.err = Upto2(@)]
        says == vrun.again \/ (IF ok THEN vcount.ok = 0 ELSE vcount.err = 0)
    IN  /\ vcount' = count
        /\ vfb' = IF says THEN vfb + 1 ELSE vfb
        /\ vdirty' = (says \/ (vdirty /\ ~ok))
        /\ vowed' = IF says THEN vfb' ELSE vowed
        /\ vrun' = IF vrun.again THEN Run("call", FlushScript, FALSE) ELSE Resting
        /\ UNCHANGED vmode

\* vg_probe: a failed request ends it and the first framebuffer stays;
\* otherwise drm_switch_fb draws the whole console and it is flushed.
ProbeEnds(ok) ==
    /\ vmode' = IF ok THEN "on" ELSE "off"
    /\ vfb' = IF ok THEN vfb + 1 ELSE vfb
    /\ vowed' = vfb'
    /\ vdirty' = TRUE
    /\ vrun' = IF ok THEN Run("call", FlushScript, TRUE) ELSE Resting
    /\ UNCHANGED vcount

Ends(ok) == IF vrun.who = "probe" THEN ProbeEnds(ok) ELSE FlushEnds(ok)

\* vg_ctrl returns the response; anything but OK_NODATA ends the sequence.
Answered ==
    /\ vrun.slot # NoSlot /\ vrun.slot \in vq.done
    /\ vq' = [vq EXCEPT !.busy = @ \ {vrun.slot}]
    /\ IF vq.resp[vrun.slot] = "ok" /\ Len(vrun.script) > 1
       THEN /\ vrun' = [vrun EXCEPT !.script = Tail(@), !.slot = NoSlot]
            /\ UNCHANGED <<vmode, vgpicture, vcount>>
       ELSE Ends(vq.resp[vrun.slot] = "ok")
    /\ UNCHANGED <<vdev, vres, vshown>>

\* 50 ticks, or 200 million rounds, without an answer.
TimesOut ==
    /\ vrun.slot # NoSlot /\ vrun.slot \notin vq.done
    /\ vq' = ResetQueue(vq)
    /\ vdev' = DeviceReset
    /\ Ends(FALSE)
    /\ UNCHANGED <<vres, vshown>>

-----------------------------------------------------------------------------
(* The device (external).                                                  *)

DevTakes ==
    /\ vdev.job = NoSlot /\ vdev.at # vq.aidx
    /\ vdev' = [at |-> Inc16(vdev.at), job |-> vq.avail[vdev.at % QSize]]
    /\ UNCHANGED <<vq, vrun, vmode, vgpicture, vres, vshown, vcount>>

DevAnswers(resp) ==
    /\ vdev.job # NoSlot
    /\ vq' = [vq EXCEPT !.in[vdev.job] = resp, !.uidx = Inc16(@),
                        !.used[vq.uidx % QSize] = vdev.job]
    /\ vdev' = [vdev EXCEPT !.job = NoSlot]
    /\ vres' = IF resp = "ok" /\ vq.out[vdev.job] = "transfer" THEN vfb ELSE vres
    /\ vshown' = IF resp = "ok" /\ vq.out[vdev.job] = "flush" THEN vres ELSE vshown
    /\ UNCHANGED <<vrun, vmode, vgpicture, vcount>>

VgNext ==
    \/ Submit \/ PollUsed \/ Answered \/ TimesOut
    \/ \E p \in BOOLEAN : Draw(p) \/ ClearScreen(p)
    \/ \E who \in {"irq", "idle"} : Deferred(who)
    \/ DevTakes
    \/ \E resp \in {"ok", "error"} : DevAnswers(resp)

VgSpec == VgInit /\ [][VgNext]_vgvars

-----------------------------------------------------------------------------
(* Properties.                                                             *)

\* Once the dirty rectangle is empty the display shows everything the console
\* had drawn before a flush began, whatever requests timed out, were refused or
\* had the queue reset under them (vg_ctrl, vg_flush_now). A drawing made while
\* the idle loop's flush is under way carries no such promise: the flush empties
\* the rectangle at its end, with that drawing in it.
DrawnIsShown == vmode = "on" /\ ~vdirty => vshown >= vowed
=============================================================================

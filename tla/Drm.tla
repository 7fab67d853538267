-------------------------------- MODULE Drm ---------------------------------
(***************************************************************************)
(* The mode-setting objects of kernel/drivers/gpu/drm.c and the memory     *)
(* behind them: dumb buffers, framebuffers, the one crtc, the handles and  *)
(* the mappings programs get through ioctl and mmap of /dev/dri, with the  *)
(* GEM objects of i915.c when that adapter is there.                       *)
(*                                                                         *)
(* Memory is a row of units: the heap's first, then the adapter's stolen   *)
(* memory. A picture of w by h takes w * h of them (32 bits per pixel, the *)
(* pitch is the width). System calls run with interrupts off, so every     *)
(* ioctl is one step. An unused slot of dumb_buffers is never read, its    *)
(* old values are left out.                                                *)
(***************************************************************************)
EXTENDS Integers, FiniteSets, FiniteSetsExt

CONSTANTS NDumb,        \* DRM_MAX_DUMB_BUFFERS, 16
          NFbs,         \* DRM_MAX_USER_FBS, 4
          NGem,         \* MAX_GEM_OBJECTS, 64
          Pictures,     \* <<width, height>> programs ask for
          BootPicture,  \* the primary framebuffer of drm_use_scratch
          GpuPicture,   \* the one a virtio adapter switches to
          Presets,      \* the modes drm_connector_init knows
          HeapUnits,    \* units of heap memory
          StolenUnits   \* sc.stolen_size

\* kmalloc gives no memory for a picture without pixels.
ASSUME DrmConstants ==
    /\ {NDumb, NFbs, NGem, HeapUnits, StolenUnits} \subseteq Nat
    /\ Pictures \union {BootPicture, GpuPicture} \subseteq (Nat \ {0}) \X (Nat \ {0})

VARIABLES i915,     \* i915_present()
          heap,     \* blocks kmalloc has given out
          stolen,   \* stolen_cursor
          gem,      \* GEM objects in use
          dumb,     \* dumb_buffers
          ufb,      \* user_fb_pool and user_fb_used
          primary,  \* primary_fb
          modes,    \* the connector's
          crtc

drmvars == <<i915, heap, stolen, gem, dumb, ufb, primary, modes, crtc>>

Units(at, len) == at .. at + len - 1

NoBuffer == [used |-> FALSE, at |-> 0, len |-> 0]

NoFb == [used |-> FALSE, at |-> 0, w |-> 0, h |-> 0]

PrimaryId == 1

FbIds == 2 .. NFbs + 1

\* What a framebuffer id stands for; the slot of a removed one keeps its values.
Fb(id) == IF id = PrimaryId THEN primary ELSE ufb[id]

FirstUnused(table) == Min({i \in DOMAIN table : ~table[i].used})

Full(table) == \A i \in DOMAIN table : table[i].used

\* kmalloc (external: KHeap): any place that is free, none when there is none.
Places(len) ==
    {at \in 1 .. HeapUnits - len + 1 :
        \A b \in heap : Units(at, len) \intersect Units(b.at, b.len) = {}}

\* drm_connector_init: the presets that fit, or the framebuffer's own size.
ModesFor(fb) ==
    LET fit == {m \in Presets : m[1] <= fb.w /\ m[2] <= fb.h}
    IN  IF fit = {} THEN {<<fb.w, fb.h>>} ELSE fit

Largest(S) == CHOOSE m \in S : \A o \in S : o[1] * o[2] <= m[1] * m[2]

\* drm_mode_set_crtc.
Accepts(fb, x, y, mode) ==
    /\ mode[1] > 0 /\ mode[2] > 0
    /\ x + mode[1] <= fb.w /\ y + mode[2] <= fb.h

\* drm_init: the largest mode, at the corner of the primary framebuffer.
DrmInit ==
    /\ i915 \in BOOLEAN
    /\ heap = {} /\ stolen = 0 /\ gem = [i \in 1 .. NGem |-> NoBuffer]
    /\ dumb = [i \in 1 .. NDumb |-> NoBuffer]
    /\ ufb = [id \in FbIds |-> NoFb]
    /\ primary = [used |-> TRUE, at |-> 0, w |-> BootPicture[1], h |-> BootPicture[2]]
    /\ modes = ModesFor(primary)
    /\ crtc = [fb |-> PrimaryId, x |-> 0, y |-> 0, mode |-> Largest(modes)]

-----------------------------------------------------------------------------
(* Memory for a dumb buffer.                                               *)

\* The buffer's slot is its handle.
Painted(at, len) ==
    dumb' = [dumb EXCEPT ![FirstUnused(dumb)] = [used |-> TRUE, at |-> at, len |-> len]]

FromHeap(len) ==
    \E at \in Places(len) :
        Painted(at, len) /\ heap' = heap \union {[at |-> at, len |-> len]}

\* i915_gem_create: stolen memory while it lasts, then the heap. Objects of
\* destroyed buffers stay in the table.
FromGem(len) ==
    /\ ~Full(gem)
    /\ IF stolen + len <= StolenUnits
       THEN /\ Painted(HeapUnits + stolen + 1, len)
            /\ stolen' = stolen + len /\ UNCHANGED heap
       ELSE FromHeap(len) /\ UNCHANGED stolen
    /\ gem' = [gem EXCEPT ![FirstUnused(gem)] = dumb'[FirstUnused(dumb)]]

-----------------------------------------------------------------------------
(* The ioctls that change something; those that fail change nothing.       *)

CreateDumb(size) ==
    /\ ~Full(dumb)
    /\ LET len == size[1] * size[2]
       IN  IF i915 THEN FromGem(len)
           ELSE FromHeap(len) /\ UNCHANGED <<stolen, gem>>
    /\ UNCHANGED <<i915, ufb, primary, modes, crtc>>

\* Faulty variant: the buffer stays in the table.
DestroyDumbKeeps(h) ==
    /\ dumb[h].used
    /\ heap' = IF i915 THEN heap ELSE {b \in heap : b.at # dumb[h].at}
    /\ UNCHANGED <<i915, stolen, gem, dumb, ufb, primary, modes, crtc>>

\* The memory goes back to the heap, unless the adapter's driver gave it, and
\* whatever framebuffer or mapping still uses it.
DestroyDumb(h) ==
    /\ dumb[h].used
    /\ heap' = IF i915 THEN heap ELSE {b \in heap : b.at # dumb[h].at}
    /\ dumb' = [dumb EXCEPT ![h] = NoBuffer]
    /\ UNCHANGED <<i915, stolen, gem, ufb, primary, modes, crtc>>

\* drm_framebuffer_create with the size the program names.
AddFb2(h, size) ==
    /\ dumb[h].used /\ ~Full(ufb)
    /\ ufb' = [ufb EXCEPT ![FirstUnused(ufb)] =
                  [used |-> TRUE, at |-> dumb[h].at, w |-> size[1], h |-> size[2]]]
    /\ UNCHANGED <<i915, heap, stolen, gem, dumb, primary, modes, crtc>>

\* drm_framebuffer_destroy; the crtc is not looked at.
RmFb(id) ==
    /\ id # PrimaryId /\ ufb[id].used
    /\ ufb' = [ufb EXCEPT ![id].used = FALSE]
    /\ UNCHANGED <<i915, heap, stolen, gem, dumb, primary, modes, crtc>>

SetCrtc(id, x, y, mode) ==
    /\ Fb(id).used /\ Accepts(Fb(id), x, y, mode)
    /\ crtc' = [fb |-> id, x |-> x, y |-> y, mode |-> mode]
    /\ UNCHANGED <<i915, heap, stolen, gem, dumb, ufb, primary, modes>>

\* drm_switch_fb, by the virtio adapter's probe; modes and crtc.mode stay.
SwitchPrimary ==
    /\ primary.at = 0
    /\ \E at \in Places(GpuPicture[1] * GpuPicture[2]) :
         /\ primary' = [used |-> TRUE, at |-> at, w |-> GpuPicture[1], h |-> GpuPicture[2]]
         /\ heap' = heap \union {[at |-> at, len |-> GpuPicture[1] * GpuPicture[2]]}
    /\ crtc' = [crtc EXCEPT !.fb = PrimaryId]
    /\ dumb = [i \in 1 .. NDumb |-> NoBuffer]
    /\ UNCHANGED <<i915, stolen, gem, dumb, ufb, modes>>

DrmNext ==
    \/ \E size \in Pictures : CreateDumb(size)
    \/ \E h \in 1 .. NDumb : DestroyDumb(h) \/ \E size \in Pictures : AddFb2(h, size)
    \/ \E id \in FbIds : RmFb(id)
    \/ \E id \in FbIds \union {PrimaryId}, x \in {0, 1}, m \in modes \union Pictures :
         SetCrtc(id, x, 0, m)
    \/ SwitchPrimary

DrmSpec == DrmInit /\ [][DrmNext]_drmvars

\* drm_mmap_fb at the offset MAP_DUMB and GEM_MMAP name for handle h: the memory
\* mmap maps, asking only whether slot h is in use.
Refused == -1

MmapFb(h) ==
    IF h = 0 THEN primary.at
    ELSE IF h \in 1 .. NDumb /\ dumb[h].used THEN dumb[h].at
    ELSE Refused

-----------------------------------------------------------------------------
(* Properties.                                                             *)

\* Through any sequence of creating, destroying and failing, every buffer a
\* handle names, and mmap maps by it, has memory of its own (create_dumb,
\* destroy_dumb, i915_gem_create, drm_mmap_fb): none of it is free, another
\* buffer's or the primary framebuffer's, although slots and heap blocks are
\* used again.
BuffersApart ==
    LET live == {i \in 1 .. NDumb : dumb[i].used}
        mem(i) == Units(MmapFb(i), dumb[i].len)
        held == (UNION {Units(b.at, b.len) : b \in heap})
                  \union Units(HeapUnits + 1, stolen)
    IN  \A i \in live :
            /\ mem(i) \subseteq held
            /\ \A j \in live \ {i} : mem(i) \intersect mem(j) = {}
            /\ primary.at > 0 =>
                 mem(i) \intersect Units(primary.at, primary.w * primary.h) = {}
=============================================================================

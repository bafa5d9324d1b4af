----------------------------- MODULE HostAssets -----------------------------
(***************************************************************************)
(* HostAssets (core/src/assets/host_assets.cpp), HostConfiguration         *)
(* (core/src/android/host_configuration.cpp) and their backends: assets,   *)
(* asset directories and configurations of a guest.                        *)
(*                                                                         *)
(* Every call runs under the recursive mutex of its table, so the calls of *)
(* other threads wait and a call is one action, but for the two that copy  *)
(* to the guest (getBuffer, getNextFileName): the guest's allocator runs   *)
(* in the middle and may itself issue asset calls, which are nested in the *)
(* copy.  A guest free that calls back is left out.  A call that is        *)
(* refused before it changes anything is left out too, and so are          *)
(* AAsset_read, AAsset_seek and the lengths, which the platform answers.   *)
(* The platform names an asset by an address, which the next open may get  *)
(* again.  The tables keyed by that address (asset_buffers_,               *)
(* directory_names_) hold guest copies that live as long as the asset.     *)
(***************************************************************************)
EXTENDS Integers, Sequences, FiniteSets, Functions

CONSTANTS FileLength,     \* the files, by name, with their length
          AssetPointers,  \* addresses the platform gives to assets
          DirPointers,    \* and to directories
          Budget,         \* kMaxBufferedBytes
          Int32Max,
          AssetHandles,   \* bound: handles given out (the table is full then)
          Configs,        \* configurations of the platform
          MaxCopies,      \* bound: guest copies ever made
          MaxNested,      \* bound: copies under way, each in the allocator of the one before
          MaxManagers,    \* bound: handles of asset managers given out
          MaxFds          \* bound: descriptors open

AssetFiles == DOMAIN FileLength

VARIABLES
    managers_,        \* handles of asset managers given out; none is ever taken back
    opened,           \* platform: the file at the address of an open asset
    assets_,          \* the address of an asset's handle
    asset_handles,    \* handles given out
    asset_buffers_,   \* the guest copy of the asset at an address
    buffered_bytes_,
    guest_copies,     \* guest: what a live allocation holds
    copies_made,
    dirs,             \* directories_: the address of a directory's handle
    directory_names_, \* the guest copy of the last name of the directory at an address
    copying,          \* copies whose guest allocator runs, outermost first
    nested,           \* what calls nested in a copy have done to the tables
    open_fds,         \* descriptors the platform opened and nobody closed
    guest_fds,        \* those the guest was given
    configs_,         \* live configuration handles
    live_configs      \* platform: live configurations

assets == <<opened, assets_, asset_handles>>
buffers == <<asset_buffers_, buffered_bytes_>>
copies == <<guest_copies, copies_made>>
nesting == <<copying, nested>>
fds == <<open_fds, guest_fds>>
configs == <<configs_, live_configs>>
assetVars == <<managers_, assets, buffers, copies, nesting, dirs, directory_names_, fds, configs>>

Empty == [x \in {} |-> 0]

Init ==
    /\ managers_ = 0
    /\ opened = Empty /\ assets_ = Empty /\ asset_handles = 0
    /\ asset_buffers_ = Empty /\ buffered_bytes_ = 0
    /\ guest_copies = Empty /\ copies_made = 0
    /\ copying = <<>> /\ nested = {}
    /\ dirs = Empty /\ directory_names_ = Empty
    /\ open_fds = 0 /\ guest_fds = 0
    /\ configs_ = {} /\ live_configs = {}

Put(f, k, v) == [x \in DOMAIN f \cup {k} |-> IF x = k THEN v ELSE f[x]]
Without(f, k) == Restrict(f, DOMAIN f \ {k})
Length(p) == FileLength[opened[p]]
-----------------------------------------------------------------------------
(* AAssetManager_fromJava: a handle each time, and one global reference to  *)
(* the Java manager, which the backend keeps for good.                      *)
fromJava ==
    /\ managers_ < MaxManagers /\ managers_' = managers_ + 1
    /\ UNCHANGED <<assets, buffers, copies, nesting, dirs, directory_names_, fds, configs>>

(* AAssetManager_open; without a handle the asset is closed again.          *)
open(file, p) ==
    /\ managers_ > 0 /\ p \notin DOMAIN opened /\ asset_handles < AssetHandles
    /\ asset_handles' = asset_handles + 1
    /\ assets_' = Put(assets_, asset_handles', p)
    /\ opened' = Put(opened, p, file)
    /\ UNCHANGED <<managers_, buffers, copies, nesting, dirs, directory_names_, fds, configs>>

(* Mistake: the copy is freed and its entry kept.                           *)
FreeKeepsEntry(p) ==
    /\ guest_copies' = Without(guest_copies, asset_buffers_[p])
    /\ buffered_bytes_' = buffered_bytes_ - Length(p)
    /\ UNCHANGED asset_buffers_

FreeBuffer(p) ==
    /\ guest_copies' = Without(guest_copies, asset_buffers_[p])
    /\ asset_buffers_' = Without(asset_buffers_, p)
    /\ buffered_bytes_' = buffered_bytes_ - Length(p)

(* What was being copied is gone when its asset or directory is closed.     *)
Copying(table, p) == {i \in DOMAIN copying : copying[i].table = table /\ copying[i].key = p}
CloseUnder(table, p) ==
    /\ copying' = [i \in DOMAIN copying |->
                     IF i \in Copying(table, p) THEN [copying[i] EXCEPT !.content = "gone"] ELSE copying[i]]
    /\ nested' = IF Copying(table, p) = {} THEN nested ELSE nested \cup {"closed"}

close(h) ==
    LET p == assets_[h] IN
    /\ assets_' = Without(assets_, h)
    /\ IF p \in DOMAIN asset_buffers_ THEN FreeBuffer(p)
       ELSE UNCHANGED <<guest_copies, asset_buffers_, buffered_bytes_>>
    /\ opened' = Without(opened, p)
    /\ CloseUnder("buffer", p)
    /\ UNCHANGED <<managers_, asset_handles, copies_made, dirs, directory_names_, fds, configs>>

(* The count is unsigned: one below zero is beyond the budget.              *)
FitsBudget(size) == size <= Budget /\ buffered_bytes_ + size \in 0..Budget

(* copy_to_guest calls the guest's allocator.                               *)
StartCopy(kind, p, what, size) ==
    /\ Len(copying) < MaxNested
    /\ copying' = Append(copying, [table |-> kind, key |-> p, content |-> what, bytes |-> size])

(* AAsset_getBuffer: one copy for each asset, made at the first call.       *)
getBuffer(h) ==
    LET p == assets_[h] IN
    /\ p \notin DOMAIN asset_buffers_
    /\ Length(p) > 0 /\ FitsBudget(Length(p))
    /\ StartCopy("buffer", p, opened[p], Length(p))
    /\ UNCHANGED <<managers_, assets, buffers, copies, nested, dirs, directory_names_, fds, configs>>

(* emplace keeps an entry that is there.                                    *)
Emplace(f, k, v) == IF k \in DOMAIN f THEN f ELSE Put(f, k, v)

(* The allocator of the innermost copy returns memory, which is filled and  *)
(* entered in the copy's table.                                             *)
CopyDone ==
    /\ copying # <<>> /\ copies_made < MaxCopies
    /\ copies_made' = copies_made + 1
    /\ LET copy == copying[Len(copying)]
           outer == SubSeq(copying, 1, Len(copying) - 1) IN
       /\ copying' = outer
       /\ guest_copies' = Put(guest_copies, copies_made', copy.content)
       /\ IF copy.table = "buffer"
            THEN /\ asset_buffers_' = Emplace(asset_buffers_, copy.key, copies_made')
                 /\ buffered_bytes_' = buffered_bytes_ + copy.bytes
                 /\ UNCHANGED directory_names_
            ELSE /\ directory_names_' = Emplace(directory_names_, copy.key, copies_made')
                 /\ UNCHANGED buffers
       /\ nested' = nested \cup {IF c.table = copy.table /\ c.key = copy.key THEN "same" ELSE "other" : c \in Range(outer)}
    /\ UNCHANGED <<managers_, assets, dirs, fds, configs>>

(* It returns none, or memory that is not the guest's.                      *)
CopyFails ==
    /\ copying # <<>>
    /\ copying' = SubSeq(copying, 1, Len(copying) - 1)
    /\ UNCHANGED <<managers_, assets, buffers, copies, nested, dirs, directory_names_, fds, configs>>
-----------------------------------------------------------------------------
(* AAsset_openFileDescriptor(64): the platform has opened a descriptor.  If *)
(* its start or length does not fit, or the guest has not given writable    *)
(* memory for them, it is closed again.                                     *)
ClosedAgain(fits, writable) == IF ~fits THEN 1 ELSE IF ~writable THEN 1 ELSE 0

openFileDescriptor(h, wide, writable) ==
    LET fits == wide \/ Length(assets_[h]) <= Int32Max IN
    /\ open_fds < MaxFds
    /\ open_fds' = open_fds + 1 - ClosedAgain(fits, writable)
    /\ guest_fds' = guest_fds + IF fits /\ writable THEN 1 ELSE 0
    /\ UNCHANGED <<managers_, assets, buffers, copies, nesting, dirs, directory_names_, configs>>

(* Guest: it closes a descriptor of its own.                                *)
GuestCloses ==
    /\ guest_fds > 0
    /\ guest_fds' = guest_fds - 1 /\ open_fds' = open_fds - 1
    /\ UNCHANGED <<managers_, assets, buffers, copies, nesting, dirs, directory_names_, configs>>
-----------------------------------------------------------------------------
openDir(p) ==
    /\ managers_ > 0 /\ p \notin Range(dirs) /\ asset_handles < AssetHandles
    /\ asset_handles' = asset_handles + 1 /\ dirs' = Put(dirs, asset_handles', p)
    /\ UNCHANGED <<managers_, opened, assets_, buffers, copies, nesting, directory_names_, fds, configs>>

WithoutName(p) ==
    IF p \in DOMAIN directory_names_ THEN Without(guest_copies, directory_names_[p]) ELSE guest_copies

(* AAssetDir_getNextFileName: the previous name is freed, then there is a   *)
(* next one, which is copied, or not.                                       *)
getNextFileName(h) ==
    LET p == dirs[h] IN
    /\ guest_copies' = WithoutName(p)
    /\ directory_names_' = Without(directory_names_, p)
    /\ StartCopy("name", p, "name", 0) \/ UNCHANGED copying
    /\ UNCHANGED <<managers_, assets, buffers, copies_made, nested, dirs, fds, configs>>

closeDir(h) ==
    /\ guest_copies' = WithoutName(dirs[h])
    /\ directory_names_' = Without(directory_names_, dirs[h])
    /\ dirs' = Without(dirs, h)
    /\ CloseUnder("name", dirs[h])
    /\ UNCHANGED <<managers_, assets, buffers, copies_made, fds, configs>>
-----------------------------------------------------------------------------
(* AConfiguration_new and AConfiguration_delete; the other calls look their *)
(* handles up and pass them on.                                             *)
newConfiguration(c) ==
    /\ c \notin live_configs
    /\ configs_' = configs_ \cup {c} /\ live_configs' = live_configs \cup {c}
    /\ UNCHANGED <<managers_, assets, buffers, copies, nesting, dirs, directory_names_, fds>>

deleteConfiguration(c) ==
    /\ c \in configs_
    /\ configs_' = configs_ \ {c} /\ live_configs' = live_configs \ {c}
    /\ UNCHANGED <<managers_, assets, buffers, copies, nesting, dirs, directory_names_, fds>>

Next ==
    \/ fromJava
    \/ \E f \in AssetFiles, p \in AssetPointers : open(f, p)
    \/ \E h \in DOMAIN assets_ :
         \/ close(h) \/ getBuffer(h)
         \/ \E wide, writable \in BOOLEAN : openFileDescriptor(h, wide, writable)
    \/ CopyDone \/ CopyFails
    \/ GuestCloses
    \/ \E p \in DirPointers : openDir(p)
    \/ \E h \in DOMAIN dirs : getNextFileName(h) \/ closeDir(h)

(* HostConfiguration shares nothing with the assets.                        *)
ConfigurationNext == \E c \in Configs : newConfiguration(c) \/ deleteConfiguration(c)
-----------------------------------------------------------------------------
(* The type of the state.                                                   *)
TypeOK ==
    /\ DOMAIN opened \subseteq AssetPointers /\ \A p \in DOMAIN opened : opened[p] \in AssetFiles
    /\ managers_ \in 0..MaxManagers
    /\ asset_handles \in 0..AssetHandles
    /\ DOMAIN assets_ \subseteq 1..asset_handles /\ DOMAIN dirs \subseteq 1..asset_handles
    /\ buffered_bytes_ \in Int /\ copies_made \in 0..MaxCopies
    /\ Len(copying) <= MaxNested /\ nested \subseteq {"same", "other", "closed"}
    /\ open_fds \in 0..MaxFds /\ guest_fds \in 0..MaxFds

(* No call nested in a copy has copied the same asset or closed it.         *)
Apart == nested \subseteq {"other"}

(* The copy a guest has of an asset is of the file that is open at that     *)
(* address now, also after the address was given to another asset, and      *)
(* whatever the allocator does meanwhile but to close or copy this asset.   *)
BufferCurrent ==
    Apart => \A p \in DOMAIN asset_buffers_ :
                /\ p \in DOMAIN opened /\ asset_buffers_[p] \in DOMAIN guest_copies
                /\ guest_copies[asset_buffers_[p]] = opened[p]

(* The bytes counted are those of the copies there are, so that closing     *)
(* assets gives the whole budget back.  They stay within the budget unless  *)
(* copies were nested, each of which was checked before the others counted. *)
BudgetKept ==
    /\ Apart => buffered_bytes_ = SumFunction([p \in DOMAIN asset_buffers_ |-> Length(p)])
    /\ nested = {} => buffered_bytes_ <= Budget

(* Nothing outlives its handle.  A guest allocation is the copy of an open  *)
(* asset or the last name of an open directory, and an asset, a descriptor  *)
(* or a configuration of the platform is one the guest was given and can    *)
(* close.                                                                   *)
NothingStranded ==
    /\ Apart => /\ DOMAIN guest_copies = Range(asset_buffers_) \cup Range(directory_names_)
                /\ DOMAIN directory_names_ \subseteq Range(dirs)
    /\ Range(assets_) = DOMAIN opened
    /\ open_fds = guest_fds /\ live_configs = configs_
=============================================================================

----------------------------- MODULE LumpCache -----------------------------
(***************************************************************************)
(* The lump cache of a WAD that is read from a file (W_CacheLumpNum,       *)
(* W_ReleaseLumpNum in src/w_wad.c) on top of the zone allocator, with the *)
(* callers that keep a pointer while memory is allocated:                  *)
(*   - the renderer composes a texture from patches (R_GenerateComposite); *)
(*   - the level loader copies lumps into level memory (P_LoadVertexes and *)
(*     its kin) and frees the memory of the last level (P_SetupLevel);     *)
(*   - the intermission holds its graphics from WI_loadData to             *)
(*     WI_unloadData;                                                      *)
(*   - a static pointer is taken once, for good: the status bar's          *)
(*     graphics, which the intermission shares, or the crosshair patch     *)
(*     (R_DrawLSprite); everybody else draws a cached lump at once.        *)
(*                                                                         *)
(* The program has one thread: job is the caller in progress, and it       *)
(* waits while a call of the allocator runs. A lump's pointer variable is  *)
(* lumpinfo[l]->cache, a texture's is texturecomposite[t].                 *)
(***************************************************************************)
EXTENDS Zone, Sequences

CONSTANTS Lump,         \* lumps of the WAD
          Texture,      \* wall textures
          Size,         \* Size[l]: units of a lump or a composite
          Patches,      \* Patches[t]: the lumps texture t is made of
          DrawnLumps,   \* drawn with W_CacheLumpNum(l, PU_CACHE)
          MapLumps,     \* read by the level loader
          WiLumps,      \* loaded by the intermission
          StaticLump,   \* the lump a static pointer is kept to
          LevelSize,    \* units of a level allocation
          MaxLevel      \* bound: level allocations at a time

ASSUME CacheAssumption ==
    /\ Pointer = Lump \cup Texture
    /\ Lump \cap Texture = {}
    /\ Size \in [Pointer -> Nat \ {0}] /\ LevelSize \in Nat \ {0}
    /\ Patches \in [Texture -> Seq(Lump)]

\* A lump has one use where the tag matters: what the intermission holds is
\* not drawn from the cache meanwhile, and neither that nor a static lump is a
\* patch of a texture or a lump of a map. (A static lump may be drawn.)
PatchLumps == {l \in Lump : \E t \in Texture : \E i \in DOMAIN Patches[t] : Patches[t][i] = l}

ASSUME UsesAssumption ==
    /\ DrawnLumps \subseteq Lump /\ MapLumps \subseteq Lump
    /\ WiLumps \subseteq Lump /\ StaticLump \in Lump
    /\ WiLumps \cap (DrawnLumps \cup MapLumps \cup PatchLumps) = {}
    /\ StaticLump \notin MapLumps \cup PatchLumps

VARIABLES job,    \* the caller in progress
          level,  \* pointers to level memory
          wi,     \* wi[l]: the intermission's pointer to lump l
          kept    \* the static pointer

vars == <<zoneVars, job, level, wi, kept>>

NoJob == [op |-> "none"]

Free == job = NoJob /\ ZoneIdle

Init ==
    /\ ZoneInit
    /\ job = NoJob
    /\ level = {}
    /\ wi = [l \in WiLumps |-> Null]
    /\ kept = Null
-----------------------------------------------------------------------------
(* src/w_wad.c *)

\* A lump that is loaded only changes its tag, to whatever this caller wants.
W_CacheLumpNum(l, tag) ==
    \/ pointer[l] # Null /\ Z_ChangeTag(pointer[l], tag)
    \/ pointer[l] = Null /\ Z_Malloc(Size[l], tag, l)

W_ReleaseLumpNum(l) == Z_ChangeTag(pointer[l], PU_CACHE)
-----------------------------------------------------------------------------
(* The callers *)

\* V_DrawPatch(W_CacheLumpName(..., PU_CACHE)), R_DrawVisSprite.
DrawLump ==
    /\ Free
    /\ \E l \in DrawnLumps : W_CacheLumpNum(l, PU_CACHE)
    /\ UNCHANGED <<job, level, wi, kept>>

\* ST_loadGraphics, R_DrawLSprite: loaded once, for good. The crosshair is then
\* drawn as every other sprite, by R_DrawVisSprite.
LoadStatic ==
    /\ Free
    /\ kept = Null
    /\ W_CacheLumpNum(StaticLump, PU_STATIC)
    /\ job' = [op |-> "static"]
    /\ UNCHANGED <<level, wi, kept>>

KeepStatic ==
    /\ job.op = "static" /\ ZoneIdle
    /\ kept' = pointer[StaticLump]
    /\ job' = NoJob
    /\ UNCHANGED <<zoneVars, level, wi>>

\* (A wrong version lets the composite be purged while it is built.)
AllocCompositeCached(t) == Z_Malloc(Size[t], PU_CACHE, t)
AllocComposite(t) == Z_Malloc(Size[t], PU_STATIC, t)

\* R_GetColumn finds no composite: R_GenerateComposite allocates it ...
StartComposite ==
    /\ Free
    /\ \E t \in Texture :
         /\ pointer[t] = Null
         /\ AllocComposite(t)
         /\ job' = [op |-> "composite", texture |-> t, left |-> Patches[t],
                    block |-> Null]
    /\ UNCHANGED <<level, wi, kept>>

\* ... clears it ...
ClearComposite ==
    /\ job.op = "composite" /\ ZoneIdle
    /\ job.block = Null
    /\ job' = [job EXCEPT !.block = pointer[job.texture]]
    /\ UNCHANGED <<zoneVars, level, wi, kept>>

\* ... draws one patch after the other into it ...
DrawPatch ==
    /\ job.op = "composite" /\ ZoneIdle
    /\ job.block # Null /\ job.left # << >>
    /\ W_CacheLumpNum(Head(job.left), PU_CACHE)
    /\ job' = [job EXCEPT !.left = Tail(@)]
    /\ UNCHANGED <<level, wi, kept>>

\* ... and leaves it to be purged.
FinishComposite ==
    /\ job.op = "composite" /\ ZoneIdle
    /\ job.block # Null /\ job.left = << >>
    /\ Z_ChangeTag(job.block, PU_CACHE)
    /\ job' = NoJob
    /\ UNCHANGED <<level, wi, kept>>

\* P_LoadVertexes: level memory, the lump, and back.
StartMapLump ==
    /\ Free
    /\ Cardinality(level) < MaxLevel
    /\ Z_Malloc(LevelSize, PU_LEVEL, NoUser)
    /\ \E l \in MapLumps : job' = [op |-> "map", lump |-> l]
    /\ UNCHANGED <<level, wi, kept>>

ReadMapLump ==
    /\ job.op = "map" /\ ZoneIdle
    /\ level' = level \cup {result}
    /\ W_CacheLumpNum(job.lump, PU_STATIC)
    /\ job' = [job EXCEPT !.op = "copy"]
    /\ UNCHANGED <<wi, kept>>

CopyMapLump ==
    /\ job.op = "copy" /\ ZoneIdle
    /\ W_ReleaseLumpNum(job.lump)
    /\ job' = NoJob
    /\ UNCHANGED <<level, wi, kept>>

\* A thinker's memory goes when the thinker does.
FreeLevelBlock ==
    /\ Free
    /\ \E p \in level : Z_Free(p) /\ level' = level \ {p}
    /\ UNCHANGED <<job, wi, kept>>

\* P_SetupLevel forgets the last level.
P_SetupLevel ==
    /\ Free
    /\ Z_FreeTags
    /\ level' = {}
    /\ UNCHANGED <<job, wi, kept>>

\* WI_loadData, one graphic at a time.
WI_loadCallback ==
    /\ Free
    /\ \E l \in WiLumps :
         /\ wi[l] = Null
         /\ W_CacheLumpNum(l, PU_STATIC)
         /\ job' = [op |-> "wi", lump |-> l]
    /\ UNCHANGED <<level, wi, kept>>

KeepWi ==
    /\ job.op = "wi" /\ ZoneIdle
    /\ wi' = [wi EXCEPT ![job.lump] = pointer[job.lump]]
    /\ job' = NoJob
    /\ UNCHANGED <<zoneVars, level, kept>>

\* What WI_unloadData releases: not what it shares with the status bar (a
\* wrong version does).
UnloadedAll == WiLumps
Unloaded == WiLumps \ {StaticLump}

WI_unloadCallback ==
    /\ Free
    /\ \E l \in Unloaded :
         /\ wi[l] # Null
         /\ W_ReleaseLumpNum(l)
         /\ wi' = [wi EXCEPT ![l] = Null]
    /\ UNCHANGED <<job, level, kept>>

Call == ZoneStep /\ UNCHANGED <<job, level, wi, kept>>

Next ==
    \/ Call
    \/ DrawLump \/ LoadStatic \/ KeepStatic
    \/ StartComposite \/ ClearComposite \/ DrawPatch \/ FinishComposite
    \/ StartMapLump \/ ReadMapLump \/ CopyMapLump
    \/ FreeLevelBlock \/ P_SetupLevel
    \/ WI_loadCallback \/ KeepWi \/ WI_unloadCallback

Spec == Init /\ [][Next]_vars

\* The program executes the calls it makes.
FairSpec == Spec /\ WF_vars(Call)
-----------------------------------------------------------------------------
(* Properties *)

\* Every variable and every local of the allocator and of its callers has its type.
TypeOK ==
    /\ ZoneTypeOK
    /\ level \subseteq Address
    /\ wi \in [WiLumps -> Address \cup {Null}]
    /\ kept \in Address \cup {Null}
    /\ job.op \in {"none", "static", "composite", "map", "copy", "wi"}

Holds(p, l) == p - Header \in Allocated /\ block[p - Header].user = l

\* "static entire execution time" (z_zone.h:35): a lump loaded with PU_STATIC
\* that nobody releases stays loaded.
StaticKept == kept # Null => Holds(kept, StaticLump)

\* A pointer taken before other memory is allocated is still good after it:
\* the texture that is composed while its patches push each other out of the
\* cache, the graphics the intermission loaded, the memory of the level, and a
\* static lump, unless it is one that is drawn like a sprite too.
HeldKept ==
    /\ job.op = "composite" /\ job.block # Null => Holds(job.block, job.texture)
    /\ \A l \in WiLumps : wi[l] # Null => Holds(wi[l], l)
    /\ \A p \in level : Holds(p, NoUser)
    /\ StaticLump \notin DrawnLumps => StaticKept

\* Every call of the allocator returns, or ends the program.
CallReturns == [](~ZoneIdle => <>(ZoneIdle \/ malloc.op = "error"))
=============================================================================

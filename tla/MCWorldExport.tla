--------------------------- MODULE MCWorldExport ---------------------------
(* Two regions: one with a single observed chunk, one with two observed     *)
(* chunks and somebody else's.  A command line and the desktop window.         *)
EXTENDS WorldExport, TLC

CONSTANTS cli, window, a1, a2, o1, b1

MCSectionY == {-1, 0}

MCRegionOf == (b1 :> 1) @@ (a1 :> 2) @@ (a2 :> 2) @@ (o1 :> 2)

Both(x, y) == (1 :> x) @@ (2 :> y)
At(y, s) == y :> s

\* a1 holds a renamed block, a2 something below the shape it was seen in and no
\* biomes, b1 a block the old release has nothing for, over a section that one of
\* its build ranges has no room for.
MCObserved ==
  (a1 :> [blocks |-> At(0, Both("kelp", "kelp_plant")),
          biomes |-> At(0, Both("plains", "plains")), entities |-> {"sign"},
          shape |-> {-1, 0}])
  @@ (a2 :> [blocks |-> At(-1, Both("stone", "stone")) @@ At(0, Both("stone", "kelp")),
             biomes |-> <<>>, entities |-> {}, shape |-> {0}])
  @@ (b1 :> [blocks |-> At(-1, Both("stone", "stone")) @@ At(0, Both("copper", "stone")),
             biomes |-> At(0, Both("grove", "plains")), entities |-> {}, shape |-> {-1, 0}])

MCScopes == {{a2}, {a1, a2, b1}}

MCFlawed == {{}, {a1}}

\* What the filling conversion makes of a2.
MCUnwritable ==
  {[blocks |-> At(0, Both("stone", "kelp")),
    biomes |-> At(0, Both(UnknownBiome, UnknownBiome)), entities |-> {}]}

Whole == [s \in {a1, a2, o1} |-> Empty]

MCWorlds ==
  { (1 :> Absent) @@ (2 :> [Whole EXCEPT ![a1] = Theirs, ![o1] = Theirs]),
    (1 :> [s \in {b1} |-> Damaged]) @@ (2 :> Blank),
    (1 :> Absent) @@ (2 :> [Whole EXCEPT ![a1] = Damaged]),
    (1 :> Absent) @@ (2 :> Short),
    (1 :> Absent) @@ (2 :> Absent) }

NoRules == [renames |-> <<>>, substitutions |-> <<>>,
            biomeRenames |-> <<>>, biomeSubstitutions |-> <<>>]

\* Everything the newer release added, under an older name.
FullRules == [renames |-> ("kelp_plant" :> "kelp_top") @@ ("copper" :> "gold"),
              substitutions |-> <<>>,
              biomeRenames |-> ("grove" :> "forest"), biomeSubstitutions |-> <<>>]

Substitute == [NoRules EXCEPT !.substitutions = ("copper" :> "gold"),
                              !.biomeSubstitutions = ("grove" :> "plains")]

MergeRules == [FullRules EXCEPT !.renames = ("kelp_plant" :> "gold") @@ ("copper" :> "gold")]

Old == [names |-> {"stone", "kelp", "kelp_top", "gold", "air"},
        biomes |-> {"plains", "forest", "the_void"}, ys |-> {-1, 0},
        rules |-> NoRules, policy |-> "skip-chunk",
        filler |-> "air", biomeFiller |-> "the_void", keepEntities |-> FALSE]

Convert(k) == [overwrite |-> TRUE, conversion |-> k]

Plain == [overwrite |-> TRUE, conversion |-> NoConversion]

MCRequests ==
  { Plain, [Plain EXCEPT !.overwrite = FALSE],
    Convert(Old),
    Convert([Old EXCEPT !.policy = "fill", !.ys = {0}, !.rules = FullRules, !.keepEntities = TRUE]),
    Convert([Old EXCEPT !.rules = Substitute, !.keepEntities = TRUE]),
    Convert([Old EXCEPT !.rules = MergeRules]),
    Convert([Old EXCEPT !.policy = "report", !.rules = FullRules]),
    Convert([Old EXCEPT !.policy = "report", !.rules = FullRules, !.keepEntities = TRUE]) }

\* The chain of the shipped rename table, turned round for a downgrade.
Chain == [FullRules EXCEPT !.renames = ("kelp_plant" :> "kelp") @@ ("kelp" :> "kelp_top")
                                         @@ ("copper" :> "gold")]

MCChained == {Convert([Old EXCEPT !.policy = "report", !.rules = Chain, !.keepEntities = TRUE])}
=============================================================================

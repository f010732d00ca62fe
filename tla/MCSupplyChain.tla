--------------------------- MODULE MCSupplyChain ----------------------------
(***************************************************************************)
(* Two audited trees for TLC. The first has a lockfile that can be verified *)
(* exactly at its limits and one with a local root, a package nested too    *)
(* deep and an unpinned one too far from the root; together they are over   *)
(* the caps of packages, requests and bytes. In the second tree a name      *)
(* resolves to nothing and an archive cannot be read.                       *)
(***************************************************************************)
EXTENDS SupplyChain, TLC

CONSTANTS tree1, tree2, npm, cargo, poetry,
          left, wheel, ours, second, third, broken, missing,
          tgz, whl, inner, bomb, bomb1, bomb2, torn, code, x1, x2

MCSources == {tree1, tree2}
MCManifests == {npm, cargo, poetry}
MCPackages == {left, wheel, ours, second, third, broken}
MCDirect == {left}
MCPayloads == {tgz, whl, inner, bomb, bomb1, bomb2, torn, code}
MCArchives == {tgz, whl, inner, bomb, bomb1, bomb2, torn}
MCUnreadable == {torn}
MCCalls == {x1, x2}

\* A definition of its own, which TLC evaluates only once.
Tables ==
    [sourceOf |-> npm :> tree1 @@ cargo :> tree1 @@ poetry :> tree2,
     formatOf |-> npm :> "npm" @@ cargo :> "cargo" @@ poetry :> "poetry",
     manifestOf |-> left :> npm @@ wheel :> npm @@ ours :> cargo @@ second :> cargo
                    @@ third :> cargo @@ broken :> poetry,
     kind |-> left :> "direct" @@ wheel :> "metadata" @@ ours :> "local" @@ second :> "direct"
              @@ third :> "unpinned" @@ broken :> "direct",
     requires |-> left :> {wheel} @@ wheel :> {} @@ ours :> {second} @@ second :> {third}
                  @@ third :> {} @@ broken :> {missing},
     contentOf |-> left :> tgz @@ wheel :> whl @@ ours :> code @@ second :> bomb @@ third :> code
                   @@ broken :> torn,
     contains |-> tgz :> {inner, code} @@ whl :> {code} @@ inner :> {code} @@ bomb :> {bomb1}
                  @@ bomb1 :> {bomb2} @@ bomb2 :> {code} @@ torn :> {code},
     size |-> tgz :> 1 @@ whl :> 1 @@ inner :> 1 @@ bomb :> 2 @@ bomb1 :> 1 @@ bomb2 :> 1
              @@ torn :> 1 @@ code :> 1]

MCSourceOf == Tables.sourceOf
MCFormatOf == Tables.formatOf
MCManifestOf == Tables.manifestOf
MCKind == Tables.kind
MCRequires == Tables.requires
MCContentOf == Tables.contentOf
MCContains == Tables.contains
MCSize == Tables.size

Symmetry == Permutations(MCCalls)

=============================================================================

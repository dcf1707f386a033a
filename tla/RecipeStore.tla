------------------------------ MODULE RecipeStore ------------------------------
(***************************************************************************)
(* SqliteRecipeRepository, for one recipe: it is saved in two statements   *)
(* outside a transaction, first the recipe and then a version of it with   *)
(* its values, by several connections.  Every save has values of its own,  *)
(* its number.  created_at has seconds, so versions may share it.          *)
(***************************************************************************)
EXTENDS Integers, Sequences, SequencesExt

CONSTANTS Editors,        \* the connections
          VersionNames,   \* "1.0", "1.1" ...
          NoRecipe,       \* no row
          MaxSaves,       \* bound: saves begun
          MaxSeconds      \* bound: seconds that pass

ASSUME RecipeBoundsAssumption == MaxSaves \in Nat /\ MaxSeconds \in Nat

ASSUME NoRecipeAssumption == NoRecipe \notin [version : VersionNames, values : 1..MaxSaves]

VARIABLES recipe,       \* the row of the recipe
          versions,     \* recipe_versions, in the order of their ids
          second,       \* the clock
          saves,        \* saves begun
          saving,       \* the recipe whose version each connection has yet to insert
          halved,       \* saves whose version was never inserted
          overtaken     \* saves during which the recipe was saved or deleted by another

recipeVars == <<recipe, versions, second, saves, saving, halved, overtaken>>

RecipeInit ==
  /\ recipe = NoRecipe
  /\ versions = << >>
  /\ second = 0
  /\ saves = 0
  /\ saving = [e \in Editors |-> NoRecipe]
  /\ halved = {}
  /\ overtaken = {}

UnderWay == {saving[e].values : e \in {x \in Editors : saving[x] # NoRecipe}}

\* saveRecipe: the recipe itself.
SaveRecipe(e) ==
  \E v \in VersionNames :
    /\ saving[e] = NoRecipe /\ saves < MaxSaves
    /\ saves' = saves + 1
    /\ recipe' = [version |-> v, values |-> saves']
    /\ saving' = [saving EXCEPT ![e] = recipe']
    /\ overtaken' = overtaken \cup UnderWay
    /\ UNCHANGED <<versions, second, halved>>

\* And its version.
SaveRecipeVersion(e) ==
  /\ saving[e] # NoRecipe
  /\ versions' = Append(versions, [version |-> saving[e].version, values |-> saving[e].values,
                                   createdAt |-> second])
  /\ saving' = [saving EXCEPT ![e] = NoRecipe]
  /\ UNCHANGED <<recipe, second, saves, halved, overtaken>>

\* The second insert fails, and saveRecipe with it, or the process dies before it.
SaveBreaksOff(e) ==
  /\ saving[e] # NoRecipe
  /\ halved' = halved \cup {saving[e].values}
  /\ saving' = [saving EXCEPT ![e] = NoRecipe]
  /\ UNCHANGED <<recipe, versions, second, saves, overtaken>>

\* The versions stay.
DeleteRecipe ==
  /\ recipe # NoRecipe
  /\ recipe' = NoRecipe
  /\ overtaken' = overtaken \cup UnderWay
  /\ UNCHANGED <<versions, second, saves, saving, halved>>

SecondPasses ==
  /\ second < MaxSeconds
  /\ second' = second + 1
  /\ UNCHANGED <<recipe, versions, saves, saving, halved, overtaken>>

RecipeNext ==
  \/ \E e \in Editors : SaveRecipe(e) \/ SaveRecipeVersion(e) \/ SaveBreaksOff(e)
  \/ DeleteRecipe
  \/ SecondPasses

RecipeSpec == RecipeInit /\ [][RecipeNext]_recipeVars

-------------------------------------------------------------------------------

\* ORDER BY created_at DESC
Newest(rows) == {x \in rows : \A y \in rows : y.createdAt <= x.createdAt}

\* What getRecipeSnapshot may return: LIMIT 1, of rows the order leaves equal any.
Snapshots(v) == {x.values : x \in Newest({y \in ToSet(versions) : y.version = v})}

RecipeTypeOK ==
  /\ saves \in 0..MaxSaves /\ second \in 0..MaxSeconds
  /\ recipe \in {NoRecipe} \cup [version : VersionNames, values : 1..saves]
  /\ saving \in [Editors -> {NoRecipe} \cup [version : VersionNames, values : 1..saves]]
  /\ \A k \in DOMAIN versions : versions[k] \in [version : VersionNames, values : 1..saves,
                                                 createdAt : 0..second]

\* No version is made up or stored twice, and a save that came through has its own.
EverySaveKept ==
  /\ \A j, k \in DOMAIN versions : versions[j].values = versions[k].values => j = k
  /\ {x.values : x \in ToSet(versions)} = (1..saves) \ (halved \cup UnderWay)

\* The snapshot of the recipe's version has the recipe's values, unless the save of it
\* broke off or was overtaken, or another row of this version is in its way: one of
\* the same second, or of an earlier save that was overtaken and came after it.
LatestSnapshot ==
  recipe # NoRecipe /\ recipe.values \notin halved \cup UnderWay \cup overtaken =>
    LET own == CHOOSE x \in ToSet(versions) : x.values = recipe.values IN
      \/ Snapshots(recipe.version) = {recipe.values}
      \/ \E x \in ToSet(versions) \ {own} :
           x.version = own.version /\ (x.createdAt = own.createdAt \/ x.values \in overtaken)

RecipesSound == RecipeTypeOK /\ EverySaveKept /\ LatestSnapshot
===============================================================================

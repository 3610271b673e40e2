------------------------------ MODULE MCPopups -------------------------------
(* A dynamic menu three popups deep, a menu from the .rc files with a static  *)
(* and a dynamic submenu, and a popup of !PopupDynamicFolder.                 *)
EXTENDS Popups, TLC

CONSTANTS r1, c1, g1, r2, c2, d2, s1

MCKind == r1 :> "dynamic" @@ c1 :> "dynamic" @@ g1 :> "dynamic" @@
          r2 :> "folder" @@ c2 :> "content" @@ d2 :> "dynamic" @@ s1 :> "suicidal"

MCParent == r1 :> NoPopup @@ c1 :> r1 @@ g1 :> c1 @@
            r2 :> NoPopup @@ c2 :> r2 @@ d2 :> r2 @@ s1 :> NoPopup
MCAbove == r1 :> {} @@ c1 :> {r1} @@ g1 :> {c1, r1} @@
           r2 :> {} @@ c2 :> {r2} @@ d2 :> {r2} @@ s1 :> {}
=============================================================================

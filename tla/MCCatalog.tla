------------------------------ MODULE MCCatalog ------------------------------
(***************************************************************************)
(* What the server keeps of the books, each on a small instance: the       *)
(* registration of captured images, the imports of the Kindle exports, the *)
(* watched price, the backups of its databases, the files and rows of the  *)
(* library and the pages of a book.  They share no state, so a behaviour   *)
(* moves the one that `focus` names and the others rest in first states.   *)
(***************************************************************************)
EXTENDS CapturePublication, CatalogImports, PriceWatch, Backups, LibraryBooks, PageEdits

VARIABLE focus

catalogVars == <<vars, importVars, priceVars, backupVars, libraryVars, pageVars, focus>>

\* The values of the exports are only compared with each other and with 0 (none),
\* so it is enough to begin with the first of them.
ValuesInTurn == \A a \in Asins : file["purchases"][a] <= 1

Only(part, step, others) == focus = part /\ step /\ UNCHANGED <<others, focus>>

CatalogInit ==
    /\ focus \in {"captures", "imports", "price", "backups", "library", "pages"}
    /\ Init /\ (focus # "captures" => origin = [images |-> "none", meta |-> NoEntry])
    /\ ImportInit /\ ValuesInTurn /\ (focus # "imports" => recorded = {})
    /\ PriceInit /\ BackupInit
    /\ LibraryInit /\ (focus # "library" => parts["pdf"][1] = NoOne)
    /\ PageInit /\ (focus # "pages" => Final(1) \in DOMAIN files)

CatalogNext ==
    \/ Only("captures", Next, <<importVars, priceVars, backupVars, libraryVars, pageVars>>)
    \/ Only("imports", ImportNext, <<vars, priceVars, backupVars, libraryVars, pageVars>>)
    \/ Only("price", PriceNext, <<vars, importVars, backupVars, libraryVars, pageVars>>)
    \/ Only("backups", BackupNext, <<vars, importVars, priceVars, libraryVars, pageVars>>)
    \/ Only("library", LibraryNext, <<vars, importVars, priceVars, backupVars, pageVars>>)
    \/ Only("pages", PageNext, <<vars, importVars, priceVars, backupVars, libraryVars>>)

CatalogSpec == CatalogInit /\ [][CatalogNext]_catalogVars

\* Every part keeps its types.  (A part that rests is in a first state.)
CatalogTypeOK ==
    CASE focus = "captures" -> TypeOK
      [] focus = "imports"  -> ImportTypeOK
      [] focus = "price"    -> PriceTypeOK
      [] focus = "backups"  -> BackupTypeOK
      [] focus = "library"  -> LibraryTypeOK
      [] focus = "pages"    -> PageTypeOK

\* What the catalogue holds is what its files said, what it has to report about a
\* price is reported, what is backed up can be restored, the files and the row of a
\* book stay together, and its pages stay and are in the order asked for
\* (ImportsAgree, NotificationsAgree, BackupsAgree, LibraryAgrees, PageEditsAgree).
CatalogAgrees ==
    /\ focus = "imports" => ImportsAgree
    /\ focus = "price"   => NotificationsAgree
    /\ focus = "backups" => BackupsAgree
    /\ focus = "library" => LibraryAgrees
    /\ focus = "pages"   => PageEditsAgree
=============================================================================

--------------------------- MODULE MCShopBootstrap ---------------------------
EXTENDS ShopBootstrap

MCKinds == <<"cancelled", "completed">>

=============================================================================

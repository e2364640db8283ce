--------------------------- MODULE MCListingStream ---------------------------
(* An instance of the listings for TLC. *)
EXTENDS ListingStream

=============================================================================

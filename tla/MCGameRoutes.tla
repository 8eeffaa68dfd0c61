---------------------------- MODULE MCGameRoutes ----------------------------
EXTENDS GameRoutes, TLC

CONSTANTS g1, g2

MCRank == g1 :> 1 @@ g2 :> 2
MCStatic == g1 :> {Block(0, 1)} @@ g2 :> {}
MCAsn == g1 :> {Block(1, 2)} @@ g2 :> {Block(2, 1)}
MCDns == g1 :> {} @@ g2 :> {Block(0, 0)}
MCLists == {{Block(1, 0), Block(1, 3)}, {Block(2, 0), Block(0, 5)}}
MCUserLines == {Block(1, 1)}
=============================================================================

SPECIFICATION Spec
CONSTANT Campaigns <- SmallCampaigns
INVARIANT TypeOK
INVARIANT QuietCampaignSettles
INVARIANT GreenMeansInOrder
PROPERTY NoRunDamages
PROPERTY SettlesInTheEnd

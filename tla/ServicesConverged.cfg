SPECIFICATION Spec
CONSTANT Campaigns <- OneCampaign
PROPERTY ConvergedReachesTheDatabase
